---- MODULE Spec2Model ----
(***************************************************************************)
(* Bulk ingestion pipeline of the recruitment agent                        *)
(* (enterprise_recruitment_agent/bulk_processor.py) together with the      *)
(* parts of resume_parser.py and database.py it calls.                     *)
(*                                                                         *)
(* One call of BulkProcessor.process_resumes_bulk is modelled: the         *)
(* extraction tasks run concurrently under an asyncio.Semaphore, the       *)
(* chunks are gathered in task order, the profiles are validated, stored   *)
(* in batches (with a per-record fallback), optionally scored, and the     *)
(* per-file results are compiled.                                          *)
(***************************************************************************)
EXTENDS Integers, Sequences, FiniteSets, TLC

(* ---------------- bounds of the model ---------------- *)

\* largest batch (number of resume files) given to process_resumes_bulk
MaxItems == 3

\* self.max_workers (20 in the source), scaled so that a batch can exceed it
max_workers == 2

\* self.batch_size (50 in the source), scaled so that a batch can span two
\* database batches
batch_size == 2

\* chunk_size of _parse_resumes_parallel (100 in the source), scaled so that
\* a batch can span two chunks
chunk_size == 2

(* ---------------- values ---------------- *)

\* Python None where an integer is expected (candidate id, job_id)
None == 0

\* Python None where a string is expected (storage error)
NoError == "None"

\* f-string names are kept as prefix + rest, so that str.startswith can be
\* computed: f"PARSE_FAILED_{fn}" is Name("PARSE_FAILED_", fn) and a name
\* found in the text is Name("", text)
Name(prefix, rest) == [prefix |-> prefix, rest |-> rest]

\* candidate.name.startswith("PARSE_FAILED") (case-sensitive)
StartsWithParseFailed(name) == name.prefix = "PARSE_FAILED_"

\* not candidate.name
NameIsEmpty(name) == name.prefix = "" /\ name.rest = ""

CandidateProfile(name, email, skills, experience_years, source) ==
    [name |-> name, email |-> email, skills |-> skills,
     experience_years |-> experience_years, source |-> source]

(* ---------------- inputs ---------------- *)

\* file names of the batch: file_names[i] is the i-th of these
FileNameOf(i) == <<"r1.txt", "r2.txt", "r3.txt", "r4.txt", "r5.txt">>[i]

\* what _extract_name finds in the text ("" when it returns None)
ExtractedNames == {"", "Ann Lee"}

\* what _extract_email finds in the text ("" when it returns None); the
\* pattern only matches strings that contain "@"
ExtractedEmails == {"", "a@x.com", "b@x.com"}

\* what _extract_skills finds in the text
ExtractedSkills == {<<"Python">>}

\* what _extract_experience_years finds in the text (always within 0..50)
ExtractedExperience == {4}

\* A resume file, by what the extractor meets in it:
\*   undecodable  base64.b64decode raises
\*   short        fewer than 50 characters of text are extracted
\*   raises       _parse_candidate_data raises an exception
\*   ok           the text is parsed into a profile
NoText == [kind : {"undecodable", "short", "raises"}, name : {""}, email : {""},
           skills : {<<>>}, experience_years : {0}]

ParsableText == [kind : {"ok"}, name : ExtractedNames, email : ExtractedEmails,
                 skills : ExtractedSkills, experience_years : ExtractedExperience]

ResumeFiles == NoText \cup ParsableText

JobIds == {None, 7}

(* ---------------- resume_parser.py ---------------- *)

\* ResumeParser._create_empty_candidate
_create_empty_candidate(filename) ==
    CandidateProfile(Name("Failed_Parse_", filename), "", <<>>, 0,
                     "Resume Upload - Failed")

\* ResumeParser._parse_candidate_data: name or f"Candidate_{filename}",
\* email or ""
_parse_candidate_data(text, filename) ==
    CandidateProfile(IF text.name = "" THEN Name("Candidate_", filename)
                                       ELSE Name("", text.name),
                     text.email, text.skills, text.experience_years,
                     "Resume Upload")

\* ResumeParser._parse_single_resume without the try around b64decode
_parse_single_resumeMut(file_content, filename) ==
    IF file_content.kind \in {"undecodable", "raises"}
    THEN [exception |-> TRUE, value |-> _create_empty_candidate("")]
    ELSE IF file_content.kind = "short"
    THEN [exception |-> FALSE, value |-> _create_empty_candidate(filename)]
    ELSE [exception |-> FALSE, value |-> _parse_candidate_data(file_content, filename)]

\* ResumeParser._parse_single_resume: what the awaited call gives, either a
\* returned profile or a raised exception
_parse_single_resume(file_content, filename) ==
    IF file_content.kind = "undecodable"
    THEN [exception |-> FALSE, value |-> _create_empty_candidate(filename)]
    ELSE IF file_content.kind = "short"
    THEN [exception |-> FALSE, value |-> _create_empty_candidate(filename)]
    ELSE IF file_content.kind = "raises"
    THEN [exception |-> TRUE, value |-> _create_empty_candidate("")]
    ELSE [exception |-> FALSE, value |-> _parse_candidate_data(file_content, filename)]

(* ---------------- bulk_processor.py: extraction stage ---------------- *)

\* the failed candidate profile built for a task that raised
FailedCandidateMut(filename) ==
    CandidateProfile(Name("Failed_Parse_", filename), "x@x.com", <<>>, 0,
                     "Resume Upload - Parse Failed")

FailedCandidate(filename) ==
    CandidateProfile(Name("PARSE_FAILED_", filename), "", <<>>, 0,
                     "Resume Upload - Parse Failed")

\* one element of chunk_results turned into a profile
GatheredProfile(result, filename) ==
    IF result.exception THEN FailedCandidate(filename) ELSE result.value

\* the task whose result is the j-th element (0-based) of the chunk that
\* starts at task i (0-based): asyncio.gather returns results in the order of
\* the awaitables passed in
ChunkTaskMut(i, j, len) == i + len - j

ChunkTask(i, j, len) == i + j + 1

\* async with semaphore: the body is entered only while the counter is positive
SemaphoreFreeMut(value) == TRUE

SemaphoreFree(value) == value > 0

(* ---------------- bulk_processor.py: validation stage ---------------- *)

critical_issuesMut == {"Invalid or missing name", "Duplicate email address",
                       "Missing email address"}

critical_issues == {"Invalid or missing name", "Duplicate email address"}

\* the duplicate check: the email is compared with the emails of the
\* candidates accepted so far
IsDuplicateMut(candidate, valid_candidates) ==
    /\ candidate.email # ""
    /\ \E k \in 1..Len(valid_candidates) :
          valid_candidates[k].name = candidate.name

IsDuplicate(candidate, valid_candidates) ==
    /\ candidate.email # ""
    /\ \E k \in 1..Len(valid_candidates) :
          valid_candidates[k].email = candidate.email

\* "@" in candidate.email, for the email values of the model
ContainsAt(email) == email \in {"a@x.com", "b@x.com", "c@x.com"}

\* the validation_issues list of one candidate, in the order of the checks
ValidationIssues(candidate, valid_candidates) ==
    (IF NameIsEmpty(candidate.name) \/ StartsWithParseFailed(candidate.name)
        THEN <<"Invalid or missing name">> ELSE <<>>)
    \o (IF candidate.email = "" /\ ~StartsWithParseFailed(candidate.name)
        THEN <<"Missing email address">> ELSE <<>>)
    \o (IF candidate.email # "" /\ ~ContainsAt(candidate.email)
        THEN <<"Invalid email format">> ELSE <<>>)
    \o (IF IsDuplicate(candidate, valid_candidates)
        THEN <<"Duplicate email address">> ELSE <<>>)
    \o (IF Len(candidate.skills) = 0
        THEN <<"No skills extracted">> ELSE <<>>)
    \o (IF candidate.experience_years < 0 \/ candidate.experience_years > 50
        THEN <<"Invalid experience years">> ELSE <<>>)

Range(seq) == {seq[k] : k \in 1..Len(seq)}

\* the loop of _validate_candidates from candidate i on; valid_idx records,
\* next to valid_candidates, the input position each accepted candidate
\* came from
RECURSIVE ValidateFrom(_, _, _, _, _, _)
ValidateFrom(i, candidates, file_names, valid_candidates, valid_idx, validation_results) ==
    IF i > Len(candidates)
    THEN [valid_candidates |-> valid_candidates, valid_idx |-> valid_idx,
          validation_results |-> validation_results]
    ELSE LET candidate == candidates[i]
             issues == ValidationIssues(candidate, valid_candidates)
             has_critical_issues == Range(issues) \cap critical_issues # {}
             result == [filename |-> file_names[i],
                        candidate_name |-> candidate.name,
                        email |-> candidate.email,
                        success |-> ~has_critical_issues,
                        issues |-> issues,
                        skills_count |-> Len(candidate.skills),
                        experience_years |-> candidate.experience_years]
         IN ValidateFrom(i + 1, candidates, file_names,
                IF has_critical_issues THEN valid_candidates
                                       ELSE Append(valid_candidates, candidate),
                IF has_critical_issues THEN valid_idx ELSE Append(valid_idx, i),
                Append(validation_results, result))

_validate_candidates(candidates, file_names) ==
    ValidateFrom(1, candidates, file_names, <<>>, <<>>, <<>>)


(* ---------------- database.py ---------------- *)

\* candidates.email is UNIQUE: a row is refused when a row with its email
\* is already in the table
EmailTaken(table, email) == \E r \in 1..Len(table) : table[r].email = email

\* the emails of a batch are pairwise different
DistinctEmails(batch) ==
    \A a, b \in 1..Len(batch) : a # b => batch[a].email # batch[b].email

\* ids come from the SERIAL column
NextId(table) == Len(table) + 1

\* the row written for the profile at position pos of valid_candidates
Row(table, candidate, pos) ==
    [id |-> NextId(table), name |-> candidate.name, email |-> candidate.email,
     pos |-> pos]

\* the table after the rows of batch (valid_candidates[from+1 .. from+len])
\* are inserted in order
RECURSIVE InsertAll(_, _, _)
InsertAll(table, batch, from) ==
    IF batch = <<>> THEN table
    ELSE InsertAll(Append(table, Row(table, Head(batch), from + 1)),
                   Tail(batch), from + 1)

\* DatabaseManager.create_candidates_bulk succeeds as a whole or not at all:
\* it fails on a fault of the connection and when a row violates UNIQUE
BulkInsertFails(table, batch, fault) ==
    \/ fault
    \/ ~DistinctEmails(batch)
    \/ \E k \in 1..Len(batch) : EmailTaken(table, batch[k].email)

\* DatabaseManager.create_candidate
InsertFails(table, candidate, fault) ==
    fault \/ EmailTaken(table, candidate.email)

InsertError(table, candidate, fault) ==
    IF fault THEN "connection error" ELSE "duplicate key value"

(* ---------------- bulk_processor.py: storage stage ---------------- *)

\* the stored_candidate dict of a successful insert
StoredOk(candidate, id) ==
    [id |-> id, name |-> candidate.name, email |-> candidate.email,
     success |-> TRUE, error |-> NoError]

\* the stored_candidate dict of a failed individual insert
StoredFailed(candidate, error) ==
    [id |-> None, name |-> candidate.name, email |-> candidate.email,
     success |-> FALSE, error |-> error]

\* the dicts appended after a successful bulk insert of batch, whose first
\* row got the id first_id
StoredBatch(batch, first_id) ==
    [j \in 1..Len(batch) |-> StoredOk(batch[j], first_id + j - 1)]

\* candidates[i:i + self.batch_size], i 0-based
BatchMut(candidates, i) ==
    SubSeq(candidates, i + 1,
           IF i + batch_size + 1 < Len(candidates) THEN i + batch_size + 1
                                                   ELSE Len(candidates))

Batch(candidates, i) ==
    SubSeq(candidates, i + 1,
           IF i + batch_size < Len(candidates) THEN i + batch_size
                                               ELSE Len(candidates))

\* the position in the batch the fallback loop goes to after position j:
\* the loop goes on to the next candidate whether or not the insert failed
NextInBatchMut(j, failed, len) == IF failed THEN len + 1 ELSE j + 1

NextInBatch(j, failed, len) == j + 1

(* ---------------- bulk_processor.py: scoring stage ---------------- *)

\* where process_resumes_bulk goes on after _generate_match_scores: the
\* except clause logs the error and the call returns normally
AfterScoringMut(failed) == IF failed THEN "raised" ELSE "compile"

AfterScoring(failed) == "compile"

(* ---------------- bulk_processor.py: result compilation ---------------- *)

\* storage_map.get(candidate_name, {}): the dict comprehension keeps, for
\* each name, the last stored candidate with that name; the absent dict
\* gives None / False to every .get
EmptyDict == [id |-> None, name |-> Name("", ""), email |-> "",
              success |-> FALSE, error |-> NoError]

StorageLookup(stored, candidate_name) ==
    LET S == {k \in 1..Len(stored) : stored[k].name = candidate_name}
    IN IF S = {} THEN EmptyDict
       ELSE stored[CHOOSE k \in S : \A m \in S : m <= k]

\* BulkProcessor._generate_result_message: the parts of the message text
_generate_result_message(success, validation_result, storage_result) ==
    IF success
    THEN [text |-> "Successfully processed",
          skills_count |-> validation_result.skills_count,
          experience_years |-> validation_result.experience_years,
          issues |-> <<>>, storage_error |-> NoError]
    ELSE [text |-> IF validation_result.issues = <<>>
                      /\ storage_result.error = NoError
                   THEN "Processing failed" ELSE "errors",
          skills_count |-> 0, experience_years |-> 0,
          issues |-> validation_result.issues,
          storage_error |-> storage_result.error]

\* the number of results compiled: the loop runs over validation_results
CompiledCountMut(validation_results, stored) == Len(stored)

CompiledCount(validation_results, stored) == Len(validation_results)

\* BulkProcessor._compile_processing_results
_compile_processing_results(validation_results, stored, file_names) ==
    [i \in 1..CompiledCount(validation_results, stored) |->
        LET validation_result == validation_results[i]
            storage_result ==
                StorageLookup(stored, validation_result.candidate_name)
            overall_success == validation_result.success /\ storage_result.success
        IN [filename |-> file_names[i],
            candidate_name |-> validation_result.candidate_name,
            email |-> validation_result.email,
            success |-> overall_success,
            candidate_id |-> storage_result.id,
            skills_count |-> validation_result.skills_count,
            experience_years |-> validation_result.experience_years,
            validation_issues |-> validation_result.issues,
            storage_error |-> storage_result.error,
            message |-> _generate_result_message(overall_success,
                            validation_result, storage_result)]]


(* ---------------- strings ---------------- *)

\* str.lower() on the strings of the model, as pairs <<s, s.lower()>>
LowerPairs ==
    {<<"", "">>, <<"AWS", "aws">>, <<"Angular", "angular">>,
     <<"Associate degree", "associate degree">>, <<"Austin", "austin">>, <<"Austin Heights", "austin heights">>,
     <<"Bachelor's degree", "bachelor's degree">>, <<"Boston", "boston">>, <<"CSS", "css">>,
     <<"Cloud Computing", "cloud computing">>, <<"Containerization", "containerization">>, <<"Dallas", "dallas">>,
     <<"Data Science", "data science">>, <<"DevOps", "devops">>, <<"Django", "django">>,
     <<"Docker", "docker">>, <<"Doctorate", "doctorate">>, <<"EC2", "ec2">>,
     <<"Express", "express">>, <<"FastAPI", "fastapi">>, <<"Flask", "flask">>,
     <<"Gradle", "gradle">>, <<"HTML", "html">>, <<"Hibernate", "hibernate">>,
     <<"High school diploma", "high school diploma">>, <<"JSX", "jsx">>, <<"Java", "java">>,
     <<"JavaScript", "javascript">>, <<"Kubernetes", "kubernetes">>, <<"Lambda", "lambda">>,
     <<"MA", "ma">>, <<"Machine Learning", "machine learning">>, <<"Master's degree", "master's degree">>,
     <<"Maven", "maven">>, <<"Node.js", "node.js">>, <<"NumPy", "numpy">>,
     <<"Pandas", "pandas">>, <<"PhD in Computer Science", "phd in computer science">>, <<"PyTorch", "pytorch">>,
     <<"Python", "python">>, <<"R", "r">>, <<"RDS", "rds">>,
     <<"REST APIs", "rest apis">>, <<"React", "react">>, <<"Redux", "redux">>,
     <<"RxJS", "rxjs">>, <<"S3", "s3">>, <<"SQL", "sql">>,
     <<"Scikit-learn", "scikit-learn">>, <<"Spring", "spring">>, <<"Statistics", "statistics">>,
     <<"TX", "tx">>, <<"TensorFlow", "tensorflow">>, <<"TypeScript", "typescript">>,
     <<"Vue.js", "vue.js">>, <<"Vuex", "vuex">>, <<"angular", "angular">>,
     <<"associate", "associate">>, <<"associate degree", "associate degree">>, <<"austin", "austin">>,
     <<"austin heights", "austin heights">>, <<"aws", "aws">>, <<"bachelor", "bachelor">>,
     <<"bachelor's degree", "bachelor's degree">>, <<"boston", "boston">>, <<"cloud computing", "cloud computing">>,
     <<"containerization", "containerization">>, <<"css", "css">>, <<"dallas", "dallas">>,
     <<"data science", "data science">>, <<"devops", "devops">>, <<"django", "django">>,
     <<"docker", "docker">>, <<"doctorate", "doctorate">>, <<"ec2", "ec2">>,
     <<"express", "express">>, <<"fastapi", "fastapi">>, <<"flask", "flask">>,
     <<"gradle", "gradle">>, <<"hibernate", "hibernate">>, <<"high school diploma", "high school diploma">>,
     <<"html", "html">>, <<"java", "java">>, <<"javascript", "javascript">>,
     <<"jsx", "jsx">>, <<"kubernetes", "kubernetes">>, <<"lambda", "lambda">>,
     <<"ma", "ma">>, <<"machine learning", "machine learning">>, <<"master", "master">>,
     <<"master's degree", "master's degree">>, <<"maven", "maven">>, <<"node.js", "node.js">>,
     <<"npm", "npm">>, <<"numpy", "numpy">>, <<"pandas", "pandas">>,
     <<"phd", "phd">>, <<"phd in computer science", "phd in computer science">>, <<"python", "python">>,
     <<"pytorch", "pytorch">>, <<"r", "r">>, <<"rds", "rds">>,
     <<"react", "react">>, <<"redux", "redux">>, <<"rest apis", "rest apis">>,
     <<"rxjs", "rxjs">>, <<"s3", "s3">>, <<"scikit-learn", "scikit-learn">>,
     <<"spring", "spring">>, <<"sql", "sql">>, <<"statistics", "statistics">>,
     <<"tensorflow", "tensorflow">>, <<"tx", "tx">>, <<"typescript", "typescript">>,
     <<"vue.js", "vue.js">>, <<"vuex", "vuex">>}

\* the pairs as a function from a string to its lower-case form
LowerOf ==
    [s \in {p[1] : p \in LowerPairs} |->
        (CHOOSE p \in LowerPairs : p[1] = s)[2]]

\* s.lower()
Lower(s) == LowerOf[s]

\* "part in whole" on the lower-case strings of the model, as pairs
\* <<part, whole>>; every string also contains itself and the empty string
ProperSubstrings ==
    {<<"associate", "associate degree">>, <<"austin", "austin heights">>, <<"bachelor", "bachelor's degree">>,
     <<"java", "javascript">>, <<"ma", "high school diploma">>, <<"ma", "machine learning">>,
     <<"ma", "master">>, <<"ma", "master's degree">>, <<"ma", "maven">>,
     <<"master", "master's degree">>, <<"phd", "phd in computer science">>, <<"r", "angular">>,
     <<"r", "associate degree">>, <<"r", "bachelor">>, <<"r", "bachelor's degree">>,
     <<"r", "containerization">>, <<"r", "docker">>, <<"r", "doctorate">>,
     <<"r", "express">>, <<"r", "gradle">>, <<"r", "hibernate">>,
     <<"r", "javascript">>, <<"r", "kubernetes">>, <<"r", "machine learning">>,
     <<"r", "master">>, <<"r", "master's degree">>, <<"r", "phd in computer science">>,
     <<"r", "pytorch">>, <<"r", "rds">>, <<"r", "react">>,
     <<"r", "redux">>, <<"r", "rest apis">>, <<"r", "rxjs">>,
     <<"r", "scikit-learn">>, <<"r", "spring">>, <<"r", "tensorflow">>,
     <<"r", "typescript">>}

Contains(whole, part) ==
    part = "" \/ part = whole \/ <<part, whole>> \in ProperSubstrings

\* MatchingEngine.skill_relationships
skill_relationships ==
    "React" :> <<"JavaScript", "JSX", "Redux", "HTML", "CSS">>
    @@ "Angular" :> <<"TypeScript", "JavaScript", "HTML", "CSS", "RxJS">>
    @@ "Vue.js" :> <<"JavaScript", "HTML", "CSS", "Vuex">>
    @@ "Python" :> <<"Django", "Flask", "FastAPI", "NumPy", "Pandas">>
    @@ "Java" :> <<"Spring", "Hibernate", "Maven", "Gradle">>
    @@ "Node.js" :> <<"JavaScript", "Express", "npm", "REST APIs">>
    @@ "AWS" :> <<"Cloud Computing", "EC2", "S3", "Lambda", "RDS">>
    @@ "Docker" :> <<"Containerization", "Kubernetes", "DevOps">>
    @@ "Machine Learning" :> <<"Python", "TensorFlow", "PyTorch", "Scikit-learn">>
    @@ "Data Science" :> <<"Python", "R", "Pandas", "NumPy", "Statistics">>

(* ---------------- matching_engine.py: scores ---------------- *)

\* Scores are kept as exact decimals, integers in units of 1/6000 (every
\* division by a number of skills up to 6 is exact); a comparison that falls
\* exactly on a threshold is decided as the decimal values decide it.
\* the score 1.0
One == 6000

\* the score 0.1
Tenth == One \div 10

\* n / d rounded to the nearest integer (n >= 0, d > 0)
RoundDiv(n, d) == (2 * n + d) \div (2 * d)

\* round(score, 3), in thousandths
Round3(score) == RoundDiv(score * 1000, One)

Min2(a, b) == IF a <= b THEN a ELSE b

Max2(a, b) == IF a >= b THEN a ELSE b

RECURSIVE SumSeq(_)
SumSeq(seq) == IF seq = <<>> THEN 0 ELSE Head(seq) + SumSeq(Tail(seq))

\* [skill.lower() for skill in skills], as a set
LowerSet(skills) == {Lower(skills[k]) : k \in 1..Len(skills)}

\* MatchingEngine.skill_weights
skill_weights == [exact_match |-> One, related_match |-> 7 * Tenth,
                  category_match |-> 5 * Tenth]

\* MatchingEngine._find_related_skill_match
_find_related_skill_match(required_skill, candidate_skills) ==
    LET required_lower == Lower(required_skill)
        candidate_skills_lower == LowerSet(candidate_skills)
    IN IF /\ required_skill \in DOMAIN skill_relationships
          /\ LowerSet(skill_relationships[required_skill])
                \cap candidate_skills_lower # {}
       THEN skill_weights.related_match
       ELSE IF \E k \in 1..Len(candidate_skills) :
                  /\ candidate_skills[k] \in DOMAIN skill_relationships
                  /\ required_lower \in
                        LowerSet(skill_relationships[candidate_skills[k]])
       THEN skill_weights.related_match
       ELSE IF \E part \in candidate_skills_lower :
                  Len(part) > 3 /\ Contains(required_lower, part)
       THEN skill_weights.category_match
       ELSE 0

\* the skill_score of one required skill
RequiredSkillScoreMut(req_skill, candidate_skills) ==
    IF Lower(req_skill) \in LowerSet(candidate_skills)
    THEN skill_weights.category_match
    ELSE _find_related_skill_match(req_skill, candidate_skills)

RequiredSkillScore(req_skill, candidate_skills) ==
    IF Lower(req_skill) \in LowerSet(candidate_skills)
    THEN skill_weights.exact_match
    ELSE _find_related_skill_match(req_skill, candidate_skills)

\* matching_skills after the loop over preferred_skills from position k on
RECURSIVE AddPreferred(_, _, _, _)
AddPreferred(matching_skills, preferred_skills, candidate_skills, k) ==
    IF k > Len(preferred_skills) THEN matching_skills
    ELSE LET pref_skill == preferred_skills[k]
         IN AddPreferred(
                IF /\ Lower(pref_skill) \in LowerSet(candidate_skills)
                   /\ pref_skill \notin Range(matching_skills)
                THEN Append(matching_skills, pref_skill) ELSE matching_skills,
                preferred_skills, candidate_skills, k + 1)

\* final_score = min(required_score + preferred_bonus, 1.0)
FinalSkillScoreMut(required_score, preferred_bonus) ==
    required_score + preferred_bonus

FinalSkillScore(required_score, preferred_bonus) ==
    Min2(required_score + preferred_bonus, One)

\* MatchingEngine._calculate_skill_match
_calculate_skill_match(candidate_skills, required_skills, preferred_skills) ==
    IF required_skills = <<>>
    THEN [score |-> One, matching_skills |-> <<>>, missing_skills |-> <<>>]
    ELSE LET award(r) == RequiredSkillScore(r, candidate_skills)
             total_score == SumSeq([k \in 1..Len(required_skills) |->
                                       award(required_skills[k])])
             preferred_bonus ==
                 Tenth * Cardinality({k \in 1..Len(preferred_skills) :
                     Lower(preferred_skills[k]) \in LowerSet(candidate_skills)})
             required_score == total_score \div Len(required_skills)
         IN [score |-> FinalSkillScore(required_score, preferred_bonus),
             matching_skills |->
                 AddPreferred(SelectSeq(required_skills, LAMBDA r : award(r) > 0),
                              preferred_skills, candidate_skills, 1),
             missing_skills |->
                 SelectSeq(required_skills, LAMBDA r : award(r) = 0)]

\* Python None where a number of years is expected (experience_min/max)
NoYears == -1

\* candidate_years < min_years
BelowMinMut(candidate_years, min_years) == candidate_years <= min_years

BelowMin(candidate_years, min_years) == candidate_years < min_years

\* the score of an under-qualified candidate, gap years below min_years
UnderQualifiedScoreMut(gap) ==
    IF gap <= 1 THEN 8 * Tenth
    ELSE IF gap <= 2 THEN 6 * Tenth
    ELSE Max2(3 * Tenth, One - gap * 2 * Tenth)

UnderQualifiedScore(gap) ==
    IF gap <= 1 THEN 8 * Tenth
    ELSE IF gap <= 2 THEN 6 * Tenth
    ELSE Max2(2 * Tenth, One - gap * 2 * Tenth)

\* the score of an over-qualified candidate, gap years above max_years
OverQualifiedScoreMut(gap) ==
    IF gap <= 2 THEN 9 * Tenth
    ELSE IF gap <= 5 THEN 7 * Tenth
    ELSE 8 * Tenth

OverQualifiedScore(gap) ==
    IF gap <= 2 THEN 9 * Tenth
    ELSE IF gap <= 5 THEN 8 * Tenth
    ELSE 7 * Tenth

\* MatchingEngine._calculate_experience_match
_calculate_experience_match(candidate_years, min_arg, max_arg) ==
    LET min_years == IF min_arg = NoYears THEN 0 ELSE min_arg
        max_years == IF max_arg = NoYears THEN 20 ELSE max_arg
    IN IF BelowMin(candidate_years, min_years)
       THEN [score |-> UnderQualifiedScore(min_years - candidate_years),
             fit |-> "Under-qualified", gap |-> min_years - candidate_years]
       ELSE IF candidate_years > max_years
       THEN [score |-> OverQualifiedScore(candidate_years - max_years),
             fit |-> "Over-qualified", gap |-> candidate_years - max_years]
       ELSE [score |-> One, fit |-> "Perfect", gap |-> 0]

\* a location string as its comma-separated parts, each stripped;
\* <<>> is None and <<"">> the empty string
NoLocation(location) == location = <<>> \/ location = <<"">>

\* location.lower(), part by part
LowerParts(location) == [k \in 1..Len(location) |-> Lower(location[k])]

\* part.strip() in job_location: a part holds no comma, so it lies in the
\* whole string exactly when it lies within one of its parts
InLocation(part, job_parts) ==
    \E k \in 1..Len(job_parts) : Contains(job_parts[k], part)

\* MatchingEngine._calculate_location_match
_calculate_location_match(candidate_location, job_location, remote_ok) ==
    IF remote_ok THEN [score |-> One, compatible |-> TRUE]
    ELSE IF NoLocation(job_location) \/ NoLocation(candidate_location)
    THEN [score |-> 7 * Tenth, compatible |-> TRUE]
    ELSE LET candidate_parts == LowerParts(candidate_location)
             job_parts == LowerParts(job_location)
         IN IF candidate_parts = job_parts
            THEN [score |-> One, compatible |-> TRUE]
            ELSE IF /\ Len(candidate_parts) >= 2 /\ Len(job_parts) >= 2
                    /\ candidate_parts[Len(candidate_parts)]
                           = job_parts[Len(job_parts)]
            THEN [score |-> 8 * Tenth, compatible |-> TRUE]
            ELSE IF /\ Len(candidate_parts) >= 2 /\ Len(job_parts) >= 2
                    /\ candidate_parts[1] = job_parts[1]
            THEN [score |-> 9 * Tenth, compatible |-> TRUE]
            ELSE IF \E k \in 1..Len(candidate_parts) :
                        InLocation(candidate_parts[k], job_parts)
            THEN [score |-> 6 * Tenth, compatible |-> TRUE]
            ELSE [score |-> 3 * Tenth, compatible |-> FALSE]

\* education_hierarchy.get(candidate_education, 0)
education_hierarchy(candidate_education) ==
    CASE candidate_education = "High School" -> 1
      [] candidate_education = "Associates" -> 2
      [] candidate_education = "Bachelors" -> 3
      [] candidate_education = "Masters" -> 4
      [] candidate_education = "PhD" -> 5
      [] OTHER -> 0

\* the level parsed from the job's education requirement
job_req_level(job_education) ==
    LET job_education_lower == Lower(job_education)
    IN IF \/ Contains(job_education_lower, "phd")
          \/ Contains(job_education_lower, "doctorate") THEN 5
       ELSE IF Contains(job_education_lower, "master") THEN 4
       ELSE IF Contains(job_education_lower, "bachelor") THEN 3
       ELSE IF Contains(job_education_lower, "associate") THEN 2
       ELSE 1

\* MatchingEngine._calculate_education_match; "" stands for None too
_calculate_education_match(candidate_education, job_education) ==
    IF job_education = "" THEN One
    ELSE IF candidate_education = "" THEN 5 * Tenth
    ELSE LET candidate_level == education_hierarchy(candidate_education)
         IN IF candidate_level >= job_req_level(job_education) THEN One
            ELSE IF candidate_level = job_req_level(job_education) - 1
            THEN 8 * Tenth
            ELSE 5 * Tenth

\* MatchingEngine._calculate_salary_match; 0 stands for None too
_calculate_salary_match(candidate_expectation, job_min, job_max) ==
    IF candidate_expectation = 0 THEN [score |-> One, compatible |-> TRUE]
    ELSE IF job_min = 0 /\ job_max = 0 THEN [score |-> One, compatible |-> TRUE]
    ELSE IF job_min # 0 /\ job_max # 0
    THEN IF candidate_expectation <= job_max \/ candidate_expectation < job_min
         THEN [score |-> One, compatible |-> TRUE]
         ELSE IF 10 * (candidate_expectation - job_max) <= job_max
         THEN [score |-> 8 * Tenth, compatible |-> TRUE]
         ELSE IF 10 * (candidate_expectation - job_max) <= 2 * job_max
         THEN [score |-> 6 * Tenth, compatible |-> FALSE]
         ELSE [score |-> 3 * Tenth, compatible |-> FALSE]
    ELSE [score |-> 7 * Tenth, compatible |-> TRUE]

\* one entry of match_reasons or concern_areas: an f-string as its text and
\* the values formatted into it
Reason(text, detail) == [text |-> text, detail |-> detail]

\* the weights of the five scores, in hundredths
weightsMut ==
    [skills |-> 40, experience |-> 25, location |-> 15, education |-> 15,
     salary |-> 10]

weights ==
    [skills |-> 40, experience |-> 25, location |-> 15, education |-> 10,
     salary |-> 10]

\* overall_score, in hundredths of a score unit
WeightedSum(skill, experience, location, education, salary) ==
    skill * weights.skills + experience * weights.experience
    + location * weights.location + education * weights.education
    + salary * weights.salary

\* the recommendation of _generate_recommendation, from the unrounded overall
\* score in hundredths of a score unit
Recommendation(overall) ==
    IF overall >= 85 * One THEN "Excellent Match"
    ELSE IF overall >= 75 * One THEN "Strong Match"
    ELSE IF overall >= 65 * One THEN "Good Match"
    ELSE IF overall >= 50 * One THEN "Potential Match"
    ELSE "Poor Match"

\* the reasons of _generate_recommendation
MatchReasons(skill_score, experience_score, location_score, matching_skills, experience_fit) ==
    (IF skill_score >= 8 * Tenth
     THEN <<Reason("Strong technical skill alignment", <<>>)>>
     ELSE IF skill_score >= 6 * Tenth
     THEN <<Reason("Good skill match with some gaps", <<>>)>> ELSE <<>>)
    \o (IF experience_score >= 9 * Tenth
        THEN <<Reason("Perfect experience level", <<experience_fit>>)>>
        ELSE IF experience_score >= 7 * Tenth
        THEN <<Reason("Appropriate experience level", <<>>)>> ELSE <<>>)
    \o (IF location_score >= 9 * Tenth
        THEN <<Reason("Excellent location match", <<>>)>> ELSE <<>>)
    \o (IF Len(matching_skills) > 5
        THEN <<Reason("Extensive relevant skill set", <<>>)>> ELSE <<>>)

\* the concerns of _generate_recommendation
ConcernAreas(skill_score, location_score, missing_skills, experience_fit) ==
    (IF skill_score < 6 * Tenth
     THEN <<Reason("Significant skill gaps identified", <<>>)>> ELSE <<>>)
    \o (IF missing_skills = <<>> THEN <<>>
        ELSE IF Len(missing_skills) = 1
        THEN <<Reason("Missing required skill", missing_skills)>>
        ELSE IF Len(missing_skills) <= 3
        THEN <<Reason("Missing skills", missing_skills)>>
        ELSE <<Reason("Missing required skills",
                      <<ToString(Len(missing_skills))>>)>>)
    \o (IF experience_fit = "Under-qualified"
        THEN <<Reason("Below minimum experience requirement", <<>>)>>
        ELSE IF experience_fit = "Over-qualified"
        THEN <<Reason("May be over-qualified for the role", <<>>)>> ELSE <<>>)
    \o (IF location_score < 5 * Tenth
        THEN <<Reason("Location mismatch - may require relocation", <<>>)>>
        ELSE <<>>)

\* MatchingEngine._generate_recommendation
_generate_recommendation(overall_score, skill_score, experience_score, location_score, matching_skills, missing_skills, experience_fit) ==
    [recommendation |-> Recommendation(overall_score),
     reasons |-> MatchReasons(skill_score, experience_score, location_score,
                              matching_skills, experience_fit),
     concerns |-> ConcernAreas(skill_score, location_score, missing_skills,
                               experience_fit)]

\* round(len(missing_skills) / max(len(required_skills), 1) * 100, 1),
\* in tenths of a percent
skill_gap_percentage(missing_skills, required_skills) ==
    RoundDiv(Len(missing_skills) * 1000, Max2(Len(required_skills), 1))

\* MatchingEngine._calculate_match_score: the MatchResult, its scores
\* rounded to thousandths
_calculate_match_score(candidate, job) ==
    LET skill == _calculate_skill_match(candidate.skills, job.required_skills,
                                        job.preferred_skills)
        experience == _calculate_experience_match(candidate.experience_years,
                          job.experience_min, job.experience_max)
        location == _calculate_location_match(candidate.location,
                                              job.location, job.remote_ok)
        education_score == _calculate_education_match(
                               candidate.education_level,
                               job.education_requirements)
        salary == _calculate_salary_match(candidate.salary_expectation,
                                          job.salary_min, job.salary_max)
        overall_score == WeightedSum(skill.score, experience.score,
                             location.score, education_score, salary.score)
        verdict == _generate_recommendation(overall_score, skill.score,
                       experience.score, location.score,
                       skill.matching_skills, skill.missing_skills,
                       experience.fit)
    IN [candidate_id |-> candidate.id,
        job_id |-> job.id,
        candidate_name |-> candidate.name,
        job_title |-> job.title,
        overall_match_score |-> RoundDiv(overall_score * 10, One),
        skill_match_score |-> Round3(skill.score),
        experience_match_score |-> Round3(experience.score),
        location_match_score |-> Round3(location.score),
        education_match_score |-> Round3(education_score),
        salary_match_score |-> Round3(salary.score),
        matching_skills |-> skill.matching_skills,
        missing_skills |-> skill.missing_skills,
        skill_gap_percentage |->
            skill_gap_percentage(skill.missing_skills, job.required_skills),
        experience_fit |-> experience.fit,
        experience_gap_years |-> experience.gap,
        location_compatibility |-> location.compatible,
        salary_compatibility |-> salary.compatible,
        availability_match |-> TRUE,
        recommendation |-> verdict.recommendation,
        match_reasons |-> verdict.reasons,
        concern_areas |-> verdict.concerns]

(* ---------------- find_best_matches, save_match_results ---------------- *)

\* the dict find_best_matches appends to match_results for one candidate
MatchDict(candidate, match_result) ==
    [candidate_id |-> candidate.id,
     candidate_name |-> candidate.name,
     email |-> candidate.email,
     experience_years |-> candidate.experience_years,
     location |-> candidate.location,
     match_score |-> match_result.overall_match_score,
     skill_match |-> match_result.skill_match_score,
     experience_match |-> match_result.experience_match_score,
     location_match |-> match_result.location_match_score,
     matching_skills |-> match_result.matching_skills,
     missing_skills |-> match_result.missing_skills,
     recommendation |-> match_result.recommendation,
     match_reasons |-> match_result.match_reasons,
     concern_areas |-> match_result.concern_areas]

\* if match_result.overall_match_score >= min_score
QualifiesMut(match_result, min_score) ==
    match_result.overall_match_score > min_score

Qualifies(match_result, min_score) ==
    match_result.overall_match_score >= min_score

\* the candidates of the pool, each with the MatchResult computed for it
ScoredPool(candidates, job) ==
    [k \in 1..Len(candidates) |->
        [candidate |-> candidates[k],
         match_result |-> _calculate_match_score(candidates[k], job)]]

\* the dicts appended for the kept entries of the scored pool, in its order
MatchDicts(kept) ==
    [k \in 1..Len(kept) |->
        MatchDict(kept[k].candidate, kept[k].match_result)]

\* match_results after the loop over the candidates, before the sort
QualifiedMatches(scored, min_score) ==
    MatchDicts(SelectSeq(scored,
                         LAMBDA e : Qualifies(e.match_result, min_score)))

\* where a stable descending sort puts x among the sorted earlier entries:
\* after every entry whose match_score is not below its own
InsertByScore(sorted, x) ==
    LET n == Cardinality({i \in 1..Len(sorted) :
                             sorted[i].match_score >= x.match_score})
    IN SubSeq(sorted, 1, n) \o <<x>> \o SubSeq(sorted, n + 1, Len(sorted))

\* match_results.sort(key=lambda x: x['match_score'], reverse=True)
RECURSIVE SortByScore(_)
SortByScore(match_results) ==
    IF match_results = <<>> THEN <<>>
    ELSE InsertByScore(
             SortByScore(SubSeq(match_results, 1, Len(match_results) - 1)),
             match_results[Len(match_results)])

\* match_results[:limit], limit >= 0
Truncated(match_results, limit) ==
    SubSeq(match_results, 1, Min2(limit, Len(match_results)))

\* the MatchResult find_best_matches builds from a returned dict; education
\* and salary are the literal 0.8, the fields it does not pass keep the
\* defaults of the dataclass
MatchObject(result, job_id_arg, job) ==
    [candidate_id |-> result.candidate_id,
     job_id |-> job_id_arg,
     candidate_name |-> result.candidate_name,
     job_title |-> job.title,
     overall_match_score |-> result.match_score,
     skill_match_score |-> result.skill_match,
     experience_match_score |-> result.experience_match,
     location_match_score |-> result.location_match,
     education_match_score |-> 800,
     salary_match_score |-> 800,
     matching_skills |-> result.matching_skills,
     missing_skills |-> result.missing_skills,
     skill_gap_percentage |-> 0,
     experience_fit |-> "",
     experience_gap_years |-> 0,
     location_compatibility |-> TRUE,
     salary_compatibility |-> TRUE,
     availability_match |-> TRUE,
     recommendation |-> result.recommendation,
     match_reasons |-> result.match_reasons,
     concern_areas |-> result.concern_areas]

\* a score in thousandths as a DECIMAL(5,2) column keeps it
Decimal2(score) == RoundDiv(score, 10) * 10

\* the row INSERT writes for a match: the 19 columns of the statement
MatchRow(match) ==
    [candidate_id |-> match.candidate_id,
     job_id |-> match.job_id,
     overall_match_score |-> Decimal2(match.overall_match_score),
     skill_match_score |-> Decimal2(match.skill_match_score),
     experience_match_score |-> Decimal2(match.experience_match_score),
     location_match_score |-> Decimal2(match.location_match_score),
     education_match_score |-> Decimal2(match.education_match_score),
     salary_match_score |-> Decimal2(match.salary_match_score),
     matching_skills |-> match.matching_skills,
     missing_skills |-> match.missing_skills,
     skill_gap_percentage |-> match.skill_gap_percentage,
     experience_fit |-> match.experience_fit,
     experience_gap_years |-> match.experience_gap_years,
     location_compatibility |-> match.location_compatibility,
     salary_compatibility |-> match.salary_compatibility,
     availability_match |-> match.availability_match,
     recommendation |-> match.recommendation,
     match_reasons |-> match.match_reasons,
     concern_areas |-> match.concern_areas]

\* ON CONFLICT (candidate_id, job_id) DO UPDATE SET: the columns it names
UpdatedRow(row, match) ==
    [row EXCEPT
        !.overall_match_score = Decimal2(match.overall_match_score),
        !.skill_match_score = Decimal2(match.skill_match_score),
        !.experience_match_score = Decimal2(match.experience_match_score),
        !.location_match_score = Decimal2(match.location_match_score),
        !.education_match_score = Decimal2(match.education_match_score),
        !.salary_match_score = Decimal2(match.salary_match_score),
        !.matching_skills = match.matching_skills,
        !.missing_skills = match.missing_skills]

\* UNIQUE(candidate_id, job_id): the row and the match are of the same pair
SamePair(row, match) ==
    row.candidate_id = match.candidate_id /\ row.job_id = match.job_id

\* one execute of the statement of save_match_results
Upsert(table, match) ==
    IF \E r \in 1..Len(table) : SamePair(table[r], match)
    THEN [r \in 1..Len(table) |->
             IF SamePair(table[r], match) THEN UpdatedRow(table[r], match)
             ELSE table[r]]
    ELSE Append(table, MatchRow(match))

\* DatabaseManager.save_match_results, committed
RECURSIVE save_match_results(_, _)
save_match_results(table, matches) ==
    IF matches = <<>> THEN table
    ELSE save_match_results(Upsert(table, Head(matches)), Tail(matches))

(* ---------------- state ---------------- *)

VARIABLES
    resume_files,       \* the batch: what each file holds
    file_names,         \* the file names of the batch
    job_id,             \* the job_id argument, None when absent
    pc,                 \* where process_resumes_bulk is
    task,               \* per extraction task: "pending", "running", "done"
    semaphore,          \* the counter of the asyncio.Semaphore
    task_result,        \* per finished task: what it returned or raised
    out_of_order,       \* a task has finished before an earlier one
    chunk_i,            \* i of the chunk loop of _parse_resumes_parallel
    parsed_candidates,
    valid_candidates,
    valid_idx,          \* the input position of each valid candidate
    validation_results,
    store_i,            \* i of the batch loop of _store_candidates_batch
    fallback_j,         \* position of the fallback loop in the batch, 0 outside
    stored_candidates,
    candidates_table,   \* the rows of the candidates table
    bulk_failed,        \* the batches (by their i) whose bulk insert failed
    create_calls,       \* the create_candidate calls made, by position
    scoring,            \* "not run", "logged" or "failed"
    results,            \* the list process_resumes_bulk returns
    match_table,        \* the rows of the match_results table
    m_pc,               \* where find_best_matches is: "idle", "ready", "done"
    m_job,              \* the job_postings row of the job_id, or NoJob
    m_pool,             \* what get_candidates_for_matching returns
    m_args,             \* the min_score and limit arguments
    m_returned,         \* the list find_best_matches returns
    m_scored,           \* the MatchResult it computed for each candidate
    m_saved,            \* the match objects it handed to save_match_results
    fn_pc,              \* a scoring function on its own: "idle", "ready", "done"
    fn_in,              \* its arguments
    fn_out              \* what it returned

vars == <<resume_files, file_names, job_id, pc, task, semaphore, task_result,
          out_of_order, chunk_i, parsed_candidates, valid_candidates,
          valid_idx, validation_results, store_i, fallback_j,
          stored_candidates, candidates_table, bulk_failed, create_calls,
          scoring, results, match_table, m_pc, m_job, m_pool, m_args,
          m_returned, m_scored, m_saved, fn_pc, fn_in, fn_out>>

inputs == <<resume_files, file_names, job_id>>
extraction == <<task, semaphore, task_result, out_of_order, chunk_i,
                parsed_candidates>>
validation == <<valid_candidates, valid_idx, validation_results>>
storage == <<store_i, fallback_j, stored_candidates, candidates_table,
             bulk_failed, create_calls>>
matching ==
    <<match_table, m_pc, m_job, m_pool, m_args, m_returned, m_scored,
      m_saved>>
functions == <<fn_pc, fn_in, fn_out>>
pipeline == <<inputs, pc, extraction, validation, storage, scoring, results>>

\* no call of find_best_matches is under way
MatchingIdle ==
    /\ match_table = <<>>
    /\ m_pc = "idle"
    /\ m_job = <<>>
    /\ m_pool = <<>>
    /\ m_args = <<>>
    /\ m_returned = <<>>
    /\ m_scored = <<>>
    /\ m_saved = <<>>

\* no scoring function is applied on its own
FunctionsIdle ==
    /\ fn_pc = "idle"
    /\ fn_in = <<>>
    /\ fn_out = <<>>

N == Len(resume_files)

\* the result slot of a task that has not finished
NoResult == [exception |-> FALSE, value |-> _create_empty_candidate("")]

\* the tasks inside parse_with_semaphore's "async with" body
InFlight == {t \in 1..N : task[t] = "running"}

\* if job_id:
AfterStorage == IF job_id # None THEN "score" ELSE "compile"

PipelineStart(files) ==
    /\ resume_files = files
    /\ file_names = [i \in 1..Len(files) |-> FileNameOf(i)]
    /\ job_id \in JobIds
    /\ pc = "parse"
    /\ task = [i \in 1..Len(files) |-> "pending"]
    /\ semaphore = max_workers
    /\ task_result = [i \in 1..Len(files) |-> NoResult]
    /\ out_of_order = FALSE
    /\ chunk_i = 0
    /\ parsed_candidates = <<>>
    /\ valid_candidates = <<>>
    /\ valid_idx = <<>>
    /\ validation_results = <<>>
    /\ store_i = 0
    /\ fallback_j = 0
    /\ stored_candidates = <<>>
    /\ candidates_table = <<>>
    /\ bulk_failed = {}
    /\ create_calls = <<>>
    /\ scoring = "not run"
    /\ results = <<>>

InitWith(files) == PipelineStart(files) /\ MatchingIdle /\ FunctionsIdle

Init == \E n \in 1..MaxItems : \E files \in [1..n -> ResumeFiles] : InitWith(files)

\* no bulk run is in progress
PipelineIdle == PipelineStart(<<>>) /\ job_id = None


(* ---------------- extraction stage ---------------- *)

\* parse_with_semaphore of task t enters "async with semaphore" and calls
\* _parse_single_resume
AcquireSemaphore(t) ==
    /\ pc = "parse"
    /\ task[t] = "pending"
    /\ SemaphoreFree(semaphore)
    /\ semaphore' = semaphore - 1
    /\ task' = [task EXCEPT ![t] = "running"]
    /\ UNCHANGED <<matching, functions, inputs, pc, task_result, out_of_order, chunk_i,
                   parsed_candidates, validation, storage, scoring, results>>

\* _parse_single_resume of task t returns or raises; leaving the "async
\* with" body releases the semaphore either way
CompleteTask(t) ==
    /\ pc = "parse"
    /\ task[t] = "running"
    /\ task' = [task EXCEPT ![t] = "done"]
    /\ task_result' = [task_result EXCEPT
                          ![t] = _parse_single_resume(resume_files[t], file_names[t])]
    /\ semaphore' = semaphore + 1
    /\ out_of_order' = (out_of_order \/ \E u \in 1..(t - 1) : task[u] # "done")
    /\ UNCHANGED <<matching, functions, inputs, pc, chunk_i, parsed_candidates, validation,
                   storage, scoring, results>>

\* the tasks of tasks[i:i + chunk_size]
ChunkLen == IF chunk_i + chunk_size < N THEN chunk_size ELSE N - chunk_i

\* asyncio.gather(*chunk_tasks, return_exceptions=True) returns once every
\* task of the chunk has finished; its results are appended in order, an
\* exception as a failed candidate profile
GatherChunk ==
    /\ pc = "parse"
    /\ chunk_i < N
    /\ \A t \in (chunk_i + 1)..(chunk_i + ChunkLen) : task[t] = "done"
    /\ parsed_candidates' = parsed_candidates \o
          [j \in 1..ChunkLen |->
              GatheredProfile(task_result[ChunkTask(chunk_i, j - 1, ChunkLen)],
                              file_names[chunk_i + j])]
    /\ chunk_i' = chunk_i + chunk_size
    /\ pc' = IF chunk_i + chunk_size >= N THEN "validate" ELSE "parse"
    /\ UNCHANGED <<matching, functions, inputs, task, semaphore, task_result, out_of_order,
                   validation, storage, scoring, results>>

(* ---------------- validation stage ---------------- *)

Validate ==
    /\ pc = "validate"
    /\ LET v == _validate_candidates(parsed_candidates, file_names)
       IN /\ valid_candidates' = v.valid_candidates
          /\ valid_idx' = v.valid_idx
          /\ validation_results' = v.validation_results
          /\ pc' = IF v.valid_candidates = <<>> THEN AfterStorage ELSE "store"
    /\ UNCHANGED <<matching, functions, inputs, extraction, storage, scoring, results>>

(* ---------------- storage stage ---------------- *)

\* where _store_candidates_batch goes on after the batch at store_i
AfterBatch ==
    IF store_i + batch_size >= Len(valid_candidates) THEN AfterStorage ELSE "store"

\* await self.db_manager.create_candidates_bulk(batch)
BulkInsert ==
    /\ pc = "store"
    /\ LET batch == Batch(valid_candidates, store_i)
       IN \E fault \in BOOLEAN :
            IF BulkInsertFails(candidates_table, batch, fault)
            THEN /\ bulk_failed' = bulk_failed \cup {store_i}
                 /\ pc' = "fallback"
                 /\ fallback_j' = 1
                 /\ UNCHANGED <<store_i, stored_candidates, candidates_table>>
            ELSE /\ candidates_table' = InsertAll(candidates_table, batch, store_i)
                 /\ stored_candidates' = stored_candidates \o
                        StoredBatch(batch, NextId(candidates_table))
                 /\ store_i' = store_i + batch_size
                 /\ pc' = AfterBatch
                 /\ UNCHANGED <<bulk_failed, fallback_j>>
    /\ UNCHANGED <<matching, functions, inputs, extraction, validation, create_calls, scoring, results>>

\* await self.db_manager.create_candidate(candidate) in the except branch
IndividualInsert ==
    /\ pc = "fallback"
    /\ LET batch == Batch(valid_candidates, store_i)
           candidate == batch[fallback_j]
       IN \E fault \in BOOLEAN :
            LET failed == InsertFails(candidates_table, candidate, fault)
                next == NextInBatch(fallback_j, failed, Len(batch))
            IN /\ create_calls' = Append(create_calls, store_i + fallback_j)
               /\ IF failed
                  THEN /\ stored_candidates' = Append(stored_candidates,
                              StoredFailed(candidate,
                                  InsertError(candidates_table, candidate, fault)))
                       /\ UNCHANGED candidates_table
                  ELSE /\ stored_candidates' = Append(stored_candidates,
                              StoredOk(candidate, NextId(candidates_table)))
                       /\ candidates_table' = Append(candidates_table,
                              Row(candidates_table, candidate, store_i + fallback_j))
               /\ IF next > Len(batch)
                  THEN /\ fallback_j' = 0
                       /\ store_i' = store_i + batch_size
                       /\ pc' = AfterBatch
                  ELSE /\ fallback_j' = next
                       /\ UNCHANGED <<store_i, pc>>
    /\ UNCHANGED <<matching, functions, inputs, extraction, validation, bulk_failed, scoring, results>>

(* ---------------- scoring stage ---------------- *)

\* await self._generate_match_scores(stored_candidates, job_id): the body
\* either fails inside its try (import or construction of the engine) or
\* logs the ids it would score; it calls neither the matching engine nor
\* save_match_results, so the match_results table stays as it is
GenerateMatchScores ==
    /\ pc = "score"
    /\ \E failed \in BOOLEAN :
          /\ scoring' = IF failed THEN "failed" ELSE "logged"
          /\ pc' = AfterScoring(failed)
    /\ UNCHANGED <<matching, functions, inputs, extraction, validation, storage, results>>

(* ---------------- result compilation ---------------- *)

Compile ==
    /\ pc = "compile"
    /\ results' = _compile_processing_results(validation_results,
                      stored_candidates, file_names)
    /\ pc' = "done"
    /\ UNCHANGED <<matching, functions, inputs, extraction, validation, storage, scoring>>

Next ==
    \/ \E t \in 1..N : AcquireSemaphore(t)
    \/ \E t \in 1..N : CompleteTask(t)
    \/ GatherChunk
    \/ Validate
    \/ BulkInsert
    \/ IndividualInsert
    \/ GenerateMatchScores
    \/ Compile

Spec == Init /\ [][Next]_vars


(* ---------------- validation as a function of any profile list ---------------- *)

\* largest list of profiles given to _validate_candidates on its own
MaxCandidates == 2

\* CandidateProfile values of every shape the validation checks distinguish
AnyNames == {Name("", ""), Name("", "Ann Lee"), Name("PARSE_FAILED_", "r1.txt")}

AnyEmails == {"", "a@x.com", "not-an-email"}

AnySkills == {<<>>, <<"Python">>}

AnyExperience == {4, 51}

AnyProfiles == {CandidateProfile(nm, em, sk, ex, "Resume Upload") :
                   nm \in AnyNames, em \in AnyEmails, sk \in AnySkills,
                   ex \in AnyExperience}

InitValidate ==
    \E n \in 1..MaxCandidates : \E candidates \in [1..n -> AnyProfiles] :
        /\ resume_files = <<>>
        /\ file_names = [i \in 1..n |-> FileNameOf(i)]
        /\ job_id = None
        /\ pc = "validate"
        /\ task = <<>>
        /\ semaphore = max_workers
        /\ task_result = <<>>
        /\ out_of_order = FALSE
        /\ chunk_i = 0
        /\ parsed_candidates = candidates
        /\ valid_candidates = <<>>
        /\ valid_idx = <<>>
        /\ validation_results = <<>>
        /\ store_i = 0
        /\ fallback_j = 0
        /\ stored_candidates = <<>>
        /\ candidates_table = <<>>
        /\ bulk_failed = {}
        /\ create_calls = <<>>
        /\ scoring = "not run"
        /\ results = <<>>
        /\ MatchingIdle
        /\ FunctionsIdle

NextValidate == Validate

SpecValidate == InitValidate /\ [][NextValidate]_vars

(* ---------------- properties ---------------- *)

\* the extraction stage has returned
Parsed == pc # "parse"

\* the validation stage has returned
Validated == pc \notin {"parse", "validate"}

\* the storage stage has returned
Stored == pc \in {"score", "compile", "done"}

\* the profile of input i is in valid_candidates
HandedToPersistence(i) == \E k \in 1..Len(valid_idx) : valid_idx[k] = i

\* its position there
PositionOf(i) == CHOOSE k \in 1..Len(valid_idx) : valid_idx[k] = i

\* C1: when process_resumes_bulk returns, the result list has one entry per
\* input file and entry i carries the i-th file name
C1_OneResultPerInput ==
    pc = "done" =>
        /\ Len(results) = Len(file_names)
        /\ \A i \in 1..Len(results) : results[i].filename = file_names[i]

\* a returned batch of three with a parse failure, a validation failure and
\* a storage failure
C1_Witness ==
    /\ pc = "done"
    /\ Len(results) = 3
    /\ \E i \in 1..N : resume_files[i].kind = "raises"
    /\ \E i \in 1..N : "Duplicate email address" \in Range(results[i].validation_issues)
    /\ \E k \in 1..Len(stored_candidates) : ~stored_candidates[k].success

\* C2: every profile of parsed_candidates is the one produced by the task of
\* the same position, whatever the order in which the tasks finished
C2_OutputOrderIsInputOrder ==
    \A i \in 1..Len(parsed_candidates) :
        /\ task_result[i] = _parse_single_resume(resume_files[i], file_names[i])
        /\ IF task_result[i].exception
           THEN parsed_candidates[i].name.rest = file_names[i]
           ELSE parsed_candidates[i] = task_result[i].value

\* the tasks finished out of order and the profiles differ
C2_Witness ==
    /\ out_of_order
    /\ Len(parsed_candidates) = N
    /\ N >= 2
    /\ parsed_candidates[1] # parsed_candidates[2]

\* C3: at most max_workers extraction calls are in flight
C3_BoundedConcurrency == Cardinality(InFlight) <= max_workers

\* the limit is reached while a task is still waiting for the semaphore
C3_Witness ==
    /\ Cardinality(InFlight) = max_workers
    /\ \E t \in 1..N : task[t] = "pending"

\* C4: an extraction call that raises becomes a PARSE_FAILED_ profile with an
\* empty email; every task finishes, every other item keeps its own result,
\* and the stage returns one profile per item
C4_FailureIsolation ==
    Parsed =>
        /\ Len(parsed_candidates) = N
        /\ \A i \in 1..N :
              /\ task[i] = "done"
              /\ IF resume_files[i].kind = "raises"
                 THEN /\ parsed_candidates[i].name = Name("PARSE_FAILED_", file_names[i])
                      /\ parsed_candidates[i].email = ""
                 ELSE parsed_candidates[i] =
                        _parse_single_resume(resume_files[i], file_names[i]).value

\* one item raised and a sibling was parsed into a profile
C4_Witness ==
    /\ Parsed
    /\ \E i, j \in 1..N :
          /\ resume_files[i].kind = "raises"
          /\ resume_files[j].kind = "ok"
          /\ parsed_candidates[j].source = "Resume Upload"


\* the inputs whose profile carries the same email as the profile of input i
SameEmail(i) ==
    {j \in 1..Len(parsed_candidates) :
        parsed_candidates[j].email = parsed_candidates[i].email}

FirstOf(S) == CHOOSE i \in S : \A j \in S : i <= j

\* C5: of the profiles of a batch that share an email, the first is handed
\* to persistence and every later one is not, fails, and carries the issue
\* "Duplicate email address"
C5_FirstEmailWins ==
    Validated =>
        \A i \in 1..Len(parsed_candidates) :
            (parsed_candidates[i].email # "" /\ Cardinality(SameEmail(i)) > 1) =>
                IF i = FirstOf(SameEmail(i))
                THEN HandedToPersistence(i)
                ELSE /\ ~HandedToPersistence(i)
                     /\ ~validation_results[i].success
                     /\ "Duplicate email address" \in Range(validation_results[i].issues)
                     /\ pc = "done" =>
                           /\ ~results[i].success
                           /\ "Duplicate email address" \in
                                 Range(results[i].validation_issues)

\* three files with the same email have been processed
C5_Witness ==
    /\ pc = "done"
    /\ N = 3
    /\ \A i \in 1..N : parsed_candidates[i].email = "a@x.com"
    /\ valid_idx = <<1>>

\* C6: a file with too little text, or one that cannot be decoded, is
\* never handed to persistence and its result is a failure
C6_ExtractionFailureDropped ==
    Validated =>
        \A i \in 1..N :
            resume_files[i].kind \in {"short", "undecodable"} =>
                /\ ~HandedToPersistence(i)
                /\ pc = "done" => ~results[i].success

\* the first position of the database batch that holds position k
BatchStart(k) == ((k - 1) \div batch_size) * batch_size

\* the positions of valid_candidates whose batch failed as a whole, in order
FallbackPositions ==
    SelectSeq([k \in 1..Len(valid_candidates) |-> k],
              LAMBDA k : BatchStart(k) \in bulk_failed)

\* C7: when the storage stage has returned, create_candidate has been called
\* exactly once for every profile of every batch whose bulk insert failed, in
\* order, and stored_candidates holds exactly one outcome per profile handed
\* to persistence: a success with an id or a failure with an error text
C7_FallbackRecordsEveryProfile ==
    Stored =>
        /\ create_calls = FallbackPositions
        /\ Len(stored_candidates) = Len(valid_candidates)
        /\ \A k \in 1..Len(stored_candidates) :
              /\ stored_candidates[k].name = valid_candidates[k].name
              /\ stored_candidates[k].email = valid_candidates[k].email
              /\ IF stored_candidates[k].success
                 THEN stored_candidates[k].id # None
                 ELSE /\ stored_candidates[k].id = None
                      /\ stored_candidates[k].error # NoError
                      /\ BatchStart(k) \in bulk_failed

\* a full batch failed as a whole, its first individual insert failed and
\* a later one succeeded
C7_Witness ==
    /\ Stored
    /\ 0 \in bulk_failed
    /\ Len(stored_candidates) >= batch_size
    /\ ~stored_candidates[1].success
    /\ stored_candidates[batch_size].success

\* what the claim calls critical and non-critical
CriticalCodes == {"Invalid or missing name", "Duplicate email address"}

NonCriticalCodes == {"Missing email address", "Invalid email format",
                     "No skills extracted", "Invalid experience years"}

\* C8: a profile is handed to persistence exactly when it has no critical
\* issue; every issue is critical or non-critical, and the issues are those
\* of the profile
C8_CriticalPartition ==
    Validated =>
        \A i \in 1..Len(parsed_candidates) :
            LET c == parsed_candidates[i]
                issues == Range(validation_results[i].issues)
            IN /\ issues \subseteq CriticalCodes \cup NonCriticalCodes
               /\ HandedToPersistence(i) <=> (issues \cap CriticalCodes = {})
               /\ validation_results[i].success <=> HandedToPersistence(i)
               /\ "Invalid or missing name" \in issues <=>
                     (c.name = Name("", "") \/ c.name.prefix = "PARSE_FAILED_")
               /\ "Missing email address" \in issues <=>
                     (c.email = "" /\ c.name.prefix # "PARSE_FAILED_")
               /\ "Invalid email format" \in issues <=> (c.email = "not-an-email")
               /\ "No skills extracted" \in issues <=> (c.skills = <<>>)
               /\ "Invalid experience years" \in issues <=>
                     (c.experience_years \notin 0..50)

\* a profile with each kind of non-critical issue and no critical one is kept
C8_Witness ==
    /\ Validated
    /\ \E i \in 1..Len(parsed_candidates) :
          /\ Range(validation_results[i].issues) =
                {"Invalid email format", "No skills extracted",
                 "Invalid experience years"}
          /\ HandedToPersistence(i)
    /\ \E i \in 1..Len(parsed_candidates) :
          /\ Range(validation_results[i].issues) = {"Missing email address"}
          /\ HandedToPersistence(i)

\* C9: the result of input i carries the storage outcome of the profile
\* extracted from input i, and no candidate id when it was not persisted
C9_ResultOfSameInput ==
    pc = "done" =>
        \A i \in 1..Len(results) :
            IF HandedToPersistence(i)
            THEN LET own == stored_candidates[PositionOf(i)]
                 IN /\ results[i].candidate_id = own.id
                    /\ results[i].success = own.success
                    /\ results[i].storage_error = own.error
            ELSE /\ results[i].candidate_id = None
                 /\ ~results[i].success

\* C10: the scoring step changes nothing the result list is compiled from
\* and always hands over to the compilation, whether it fails or not
C10_ScoringLeavesIngestionAlone ==
    [][pc = "score" =>
          /\ pc' = "compile"
          /\ UNCHANGED <<validation_results, stored_candidates, file_names>>]_vars

\* a call with a job_id whose scoring failed has returned a successful result
C10_Witness ==
    /\ pc = "done"
    /\ job_id # None
    /\ scoring = "failed"
    /\ \E i \in 1..Len(results) : results[i].success


\* C11: when a call with a job_id has returned, the match_results table holds
\* a row for that job and every candidate stored in the call
C11_StoredCandidatesAreScored ==
    (pc = "done" /\ job_id # None) =>
        \A k \in 1..Len(stored_candidates) :
            stored_candidates[k].success =>
                \E r \in 1..Len(match_table) :
                    /\ match_table[r].candidate_id = stored_candidates[k].id
                    /\ match_table[r].job_id = job_id

\* C12: the message of a successful result names the validation issues of
\* its profile
C12_WarningsAnnotateMessage ==
    pc = "done" =>
        \A i \in 1..Len(results) :
            (results[i].success /\ results[i].validation_issues # <<>>) =>
                results[i].message.issues = results[i].validation_issues

\* C13: for a file that cannot be decoded or holds too little text,
\* _parse_single_resume returns, without raising, a profile whose name has
\* the failure prefix and whose email and skills are empty
C13_ExtractorReturnsFailedProfile ==
    \A t \in 1..N :
        (task[t] = "done" /\ resume_files[t].kind \in {"undecodable", "short"}) =>
            /\ ~task_result[t].exception
            /\ task_result[t].value.name = Name("Failed_Parse_", file_names[t])
            /\ task_result[t].value.email = ""
            /\ task_result[t].value.skills = <<>>

\* an undecodable file and a short one have both been through the extractor
C13_Witness ==
    /\ \E t \in 1..N : task[t] = "done" /\ resume_files[t].kind = "undecodable"
    /\ \E t \in 1..N : task[t] = "done" /\ resume_files[t].kind = "short"


(* ---------------- _calculate_experience_match on its own ---------------- *)

MaxYears == 22

MaxBound == 8

\* candidate['experience_years']
CandidateYears == 0..MaxYears

\* job['experience_min'], job['experience_max']
JobYears == {NoYears} \cup 0..MaxBound

InitExperience ==
    /\ PipelineIdle
    /\ MatchingIdle
    /\ fn_pc = "call"
    /\ fn_in \in [candidate_years : CandidateYears,
                  min_years : JobYears, max_years : JobYears]
    /\ fn_out = <<>>

ExperienceMatch ==
    /\ fn_pc = "call"
    /\ fn_out' = _calculate_experience_match(fn_in.candidate_years,
                                             fn_in.min_years, fn_in.max_years)
    /\ fn_pc' = "return"
    /\ UNCHANGED <<fn_in, matching, pipeline>>

NextExperience == ExperienceMatch

SpecExperience == InitExperience /\ [][NextExperience]_vars

\* the bounds the comparison uses once None is replaced
EffectiveMin == IF fn_in.min_years = NoYears THEN 0 ELSE fn_in.min_years

EffectiveMax == IF fn_in.max_years = NoYears THEN 20 ELSE fn_in.max_years

\* C16: the experience score is exactly 1.0 if and only if
\* min <= years <= max, and then the fit is Perfect with gap 0
C16_PerfectIffInRange ==
    fn_pc = "return" =>
        LET in_range == /\ EffectiveMin <= fn_in.candidate_years
                        /\ fn_in.candidate_years <= EffectiveMax
        IN /\ (fn_out.score = One) <=> in_range
           /\ in_range => (fn_out.fit = "Perfect" /\ fn_out.gap = 0)

C16_Witness ==
    /\ fn_pc = "return"
    /\ fn_in.min_years # NoYears
    /\ fn_in.candidate_years = fn_in.min_years
    /\ fn_in.candidate_years = fn_in.max_years
    /\ fn_out.score = One

\* the result for another number of years against the same job bounds
OtherYears(y) ==
    _calculate_experience_match(y, fn_in.min_years, fn_in.max_years)

\* y lies farther beyond the same bound than the scored candidate
FartherOnSameSide(y) ==
    /\ OtherYears(y).fit = fn_out.fit
    /\ OtherYears(y).gap > fn_out.gap

\* C17 as stated: outside [min,max] the experience score is strictly
\* decreasing in the gap on either side
C17_StrictlyDecreasing ==
    (fn_pc = "return" /\ fn_out.fit # "Perfect") =>
        \A y \in CandidateYears :
            FartherOnSameSide(y) => OtherYears(y).score < fn_out.score

\* C17 amended: outside [min,max] the experience score never increases as
\* the gap beyond either bound increases: for gaps g1 < g2 on the same side,
\* score(g2) <= score(g1)
C17_NonIncreasing ==
    (fn_pc = "return" /\ fn_out.fit # "Perfect") =>
        \A y \in CandidateYears :
            FartherOnSameSide(y) => OtherYears(y).score <= fn_out.score

\* two candidates above max score the same although one is farther away
C17_Witness ==
    /\ fn_pc = "return"
    /\ fn_out.fit = "Over-qualified"
    /\ fn_out.gap = 1
    /\ \E y \in CandidateYears :
           FartherOnSameSide(y) /\ OtherYears(y).score = fn_out.score


(* ---------------- _calculate_match_score on its own ---------------- *)

MaxSkills == 2

MaxRequired == 3

\* the skills a candidate may list, in the order they are listed
CandidateSkillOrder == <<"python", "Django", "Java", "React", "SQL">>

\* candidate['skills']
CandidateSkills ==
    {SelectSeq(CandidateSkillOrder, LAMBDA x : x \in chosen) :
        chosen \in {c \in SUBSET Range(CandidateSkillOrder) :
                        Cardinality(c) <= MaxSkills}}

\* job['required_skills']: no skill listed twice
RequiredSkills ==
    {q \in UNION {[1..n -> {"Python", "JavaScript", "SQL"}] :
                      n \in 0..Min2(MaxRequired, 3)} :
        \A a, b \in DOMAIN q : q[a] = q[b] => a = b}

\* job['preferred_skills']
PreferredSkills == {<<>>, <<"Django">>, <<"Django", "SQL">>}

\* rows of the candidates table as find_best_matches reads them
Candidates ==
    [id : {1}, name : {"Ann Lee"}, skills : CandidateSkills,
     experience_years : {1, 4, 9},
     location : {<<"Austin", "TX">>, <<"Dallas", "TX">>, <<"Boston", "MA">>},
     education_level : {"", "Bachelors"},
     salary_expectation : {0, 105, 130}]

\* the job's location and remote_ok
JobPlaces ==
    {[location |-> <<"Austin", "TX">>, remote_ok |-> FALSE],
     [location |-> <<>>, remote_ok |-> TRUE]}

\* the job as _get_job_details returns it
JobDetails(required, preferred, place, education) ==
    [id |-> 7, title |-> "Engineer",
     required_skills |-> required, preferred_skills |-> preferred,
     experience_min |-> 3, experience_max |-> 5,
     location |-> place.location, remote_ok |-> place.remote_ok,
     education_requirements |-> education,
     salary_min |-> 80, salary_max |-> 100]

Jobs ==
    {JobDetails(required, preferred, place, education) :
        required \in RequiredSkills, preferred \in PreferredSkills,
        place \in JobPlaces, education \in {"", "Master's degree"}}

InitScore ==
    /\ PipelineIdle
    /\ MatchingIdle
    /\ fn_pc = "call"
    /\ fn_in \in [candidate : Candidates, job : Jobs]
    /\ fn_out = <<>>

ScoreMatch ==
    /\ fn_pc = "call"
    /\ fn_out' = _calculate_match_score(fn_in.candidate, fn_in.job)
    /\ fn_pc' = "return"
    /\ UNCHANGED <<fn_in, matching, pipeline>>

NextScore == ScoreMatch

SpecScore == InitScore /\ [][NextScore]_vars

\* the required skills of the scored job the candidate does not list
NotExactlyMatched ==
    {k \in 1..Len(fn_in.job.required_skills) :
        Lower(fn_in.job.required_skills[k])
            \notin LowerSet(fn_in.candidate.skills)}

\* the reported skill score once required skill k is added to the
\* candidate's skills, the job unchanged
SkillScoreWith(k) ==
    Round3(_calculate_skill_match(
               Append(fn_in.candidate.skills, fn_in.job.required_skills[k]),
               fn_in.job.required_skills, fn_in.job.preferred_skills).score)

\* C15: adding to the candidate's skills a required skill that was not
\* exactly matched before never lowers the skill score of the same job
C15_SkillScoreMonotonic ==
    fn_pc = "return" =>
        \A k \in NotExactlyMatched :
            SkillScoreWith(k) >= fn_out.skill_match_score

\* a related skill counted 0.7 is replaced by the exact match
C15_Witness ==
    /\ fn_pc = "return"
    /\ fn_in.candidate.skills = <<"React">>
    /\ fn_in.job.required_skills = <<"JavaScript">>
    /\ fn_out.skill_match_score = 700
    /\ \E k \in NotExactlyMatched : SkillScoreWith(k) = 1000

\* 0.4*skill + 0.25*experience + 0.15*location + 0.1*education + 0.1*salary
\* of the scores reported in the MatchResult, in hundredths of a thousandth
ReportedWeightedSum ==
    40 * fn_out.skill_match_score + 25 * fn_out.experience_match_score
    + 15 * fn_out.location_match_score + 10 * fn_out.education_match_score
    + 10 * fn_out.salary_match_score

\* skill 0.5 with the other four at 1.0 gives 0.80 and "Strong Match"
C18_Example ==
    (/\ fn_out.skill_match_score = 500
     /\ fn_out.experience_match_score = 1000
     /\ fn_out.location_match_score = 1000
     /\ fn_out.education_match_score = 1000
     /\ fn_out.salary_match_score = 1000) =>
        /\ fn_out.overall_match_score = 800
        /\ fn_out.recommendation = "Strong Match"

\* C18 as stated: the overall score of a MatchResult equals the weighted sum
\* of the five sub-scores of that same MatchResult
C18_OverallIsWeightedSum ==
    fn_pc = "return" =>
        /\ 100 * fn_out.overall_match_score = ReportedWeightedSum
        /\ C18_Example

\* the five sub-scores before rounding, weighted 0.4, 0.25, 0.15, 0.1, 0.1,
\* in hundredths of a score unit
UnroundedWeightedSum ==
    40 * _calculate_skill_match(fn_in.candidate.skills,
             fn_in.job.required_skills, fn_in.job.preferred_skills).score
    + 25 * _calculate_experience_match(fn_in.candidate.experience_years,
               fn_in.job.experience_min, fn_in.job.experience_max).score
    + 15 * _calculate_location_match(fn_in.candidate.location,
               fn_in.job.location, fn_in.job.remote_ok).score
    + 10 * _calculate_education_match(fn_in.candidate.education_level,
               fn_in.job.education_requirements)
    + 10 * _calculate_salary_match(fn_in.candidate.salary_expectation,
               fn_in.job.salary_min, fn_in.job.salary_max).score

\* C18 amended: the overall score of a MatchResult is the weighted sum of the
\* five sub-scores before rounding, rounded to three decimals, and so lies
\* within 0.001 of the weighted sum of the sub-scores the MatchResult reports
C18_OverallIsRoundedWeightedSum ==
    fn_pc = "return" =>
        /\ fn_out.overall_match_score = RoundDiv(UnroundedWeightedSum * 10, One)
        /\ 100 * fn_out.overall_match_score - ReportedWeightedSum <= 100
        /\ ReportedWeightedSum - 100 * fn_out.overall_match_score <= 100
        /\ C18_Example

\* one of three required skills matched: skill 0.333, overall off the sum
C18_Witness ==
    /\ fn_pc = "return"
    /\ fn_out.skill_match_score = 333
    /\ 100 * fn_out.overall_match_score # ReportedWeightedSum

\* the scores of a MatchResult, in thousandths
ReportedScores ==
    {fn_out.overall_match_score, fn_out.skill_match_score,
     fn_out.experience_match_score, fn_out.location_match_score,
     fn_out.education_match_score, fn_out.salary_match_score}

\* C19: the overall score and the five sub-scores of every MatchResult lie
\* in [0,1], the preferred-skill bonus included
C19_ScoresInUnitInterval ==
    fn_pc = "return" => \A score \in ReportedScores : 0 <= score /\ score <= 1000

\* every required skill matched exactly and two preferred skills on top
C19_Witness ==
    /\ fn_pc = "return"
    /\ fn_in.job.required_skills = <<"SQL">>
    /\ fn_in.job.preferred_skills = <<"Django", "SQL">>
    /\ fn_in.candidate.skills = <<"Django", "SQL">>
    /\ fn_out.skill_match_score = 1000

(* ---------------- find_best_matches on its own ---------------- *)

MaxPool == 3

\* what the candidates of the pool look like, apart from id and email
PoolProfiles ==
    {[name |-> "Ann Lee", skills |-> <<"python", "SQL">>,
      experience_years |-> 4, location |-> <<"Austin", "TX">>,
      education_level |-> "Bachelors", salary_expectation |-> 0],
     [name |-> "Bo Chen", skills |-> <<"Django">>,
      experience_years |-> 1, location |-> <<"Dallas", "TX">>,
      education_level |-> "", salary_expectation |-> 105],
     [name |-> "Cy Diaz", skills |-> <<"python">>,
      experience_years |-> 9, location |-> <<"Boston", "MA">>,
      education_level |-> "Bachelors", salary_expectation |-> 130]}

\* the email of the candidate with id i
PoolEmail(i) == <<"a@x.com", "b@x.com", "c@x.com", "d@x.com", "e@x.com">>[i]

\* the row of the candidates table with id i and the given profile
PoolCandidate(i, profile) ==
    [id |-> i, name |-> profile.name, email |-> PoolEmail(i),
     skills |-> profile.skills,
     experience_years |-> profile.experience_years,
     location |-> profile.location,
     education_level |-> profile.education_level,
     salary_expectation |-> profile.salary_expectation]

\* what get_candidates_for_matching may return: rows with distinct ids
Pools ==
    UNION {{[i \in 1..n |-> PoolCandidate(i, profiles[i])] :
               profiles \in [1..n -> PoolProfiles]} : n \in 0..MaxPool}

\* the row of job_postings the calls are about
PostedJob ==
    JobDetails(<<"Python", "SQL">>, <<"Django">>,
               [location |-> <<"Austin", "TX">>, remote_ok |-> FALSE],
               "Master's degree")

\* the arguments of a call: min_score in thousandths
RankArgs == [job_id : {7}, limit : {1, 2, 20}, min_score : {0, 580, 600}]

InitRank ==
    /\ PipelineIdle
    /\ FunctionsIdle
    /\ match_table = <<>>
    /\ m_pc = "call"
    /\ m_job \in {<<>>, <<PostedJob>>}
    /\ m_pool \in Pools
    /\ m_args \in RankArgs
    /\ m_returned = <<>>
    /\ m_scored = <<>>
    /\ m_saved = <<>>

\* if not job: return []
JobNotFound ==
    /\ m_pc = "call"
    /\ m_job = <<>>
    /\ m_pc' = "returned"
    /\ m_returned' = <<>>
    /\ UNCHANGED <<match_table, m_job, m_pool, m_args, m_scored, m_saved,
                   functions, pipeline>>

\* if not candidates: return []
NoCandidates ==
    /\ m_pc = "call"
    /\ m_job # <<>>
    /\ m_pool = <<>>
    /\ m_pc' = "returned"
    /\ m_returned' = <<>>
    /\ UNCHANGED <<match_table, m_job, m_pool, m_args, m_scored, m_saved,
                   functions, pipeline>>

\* match_objects: one MatchResult for each returned dict
MatchObjects(top, job_id_arg, job) ==
    [k \in 1..Len(top) |-> MatchObject(top[k], job_id_arg, job)]

\* score, sort, save and return
RankAndSave ==
    /\ m_pc = "call"
    /\ m_job # <<>>
    /\ m_pool # <<>>
    /\ m_scored' = ScoredPool(m_pool, m_job[1])
    /\ m_returned' =
           Truncated(SortByScore(QualifiedMatches(m_scored',
                                                  m_args.min_score)),
                     m_args.limit)
    /\ m_saved' = MatchObjects(m_returned', m_args.job_id, m_job[1])
    /\ match_table' = save_match_results(match_table, m_saved')
    /\ m_pc' = "returned"
    /\ UNCHANGED <<m_job, m_pool, m_args, functions, pipeline>>

\* save_match_results raises: its transaction is rolled back and the
\* exception leaves find_best_matches
SaveRaises ==
    /\ m_pc = "call"
    /\ m_job # <<>>
    /\ m_pool # <<>>
    /\ m_pc' = "raised"
    /\ UNCHANGED <<match_table, m_job, m_pool, m_args, m_returned, m_scored,
                   m_saved, functions, pipeline>>

\* find_best_matches is called again for the job
CallAgain ==
    /\ m_pc \in {"returned", "raised"}
    /\ m_args' \in RankArgs
    /\ m_pc' = "call"
    /\ m_returned' = <<>>
    /\ m_scored' = <<>>
    /\ m_saved' = <<>>
    /\ UNCHANGED <<match_table, m_job, m_pool, functions, pipeline>>

NextRank ==
    \/ JobNotFound
    \/ NoCandidates
    \/ RankAndSave
    \/ SaveRaises
    \/ CallAgain

SpecRank == InitRank /\ [][NextRank]_vars

\* the overall score the call computed for the pool candidate at position i
PoolScore(i) == m_scored[i].match_result.overall_match_score

\* the pool position of the candidate with the given id
PoolPosition(id) == CHOOSE i \in 1..Len(m_pool) : m_pool[i].id = id

\* the pool positions whose overall score reaches min_score
Qualifying == {i \in 1..Len(m_pool) : PoolScore(i) >= m_args.min_score}

\* the pool position of the k-th returned match
ReturnedAt(k) == PoolPosition(m_returned[k].candidate_id)

ReturnedPositions == {ReturnedAt(k) : k \in 1..Len(m_returned)}

\* position i comes before position j in the ranking: higher score, or the
\* same score and earlier in the pool
RanksBefore(i, j) ==
    \/ PoolScore(i) > PoolScore(j)
    \/ PoolScore(i) = PoolScore(j) /\ i < j

\* the (candidate, job) pairs of a sequence of match objects or rows
PairsOf(matches) ==
    {<<matches[k].candidate_id, matches[k].job_id>> : k \in 1..Len(matches)}

\* C20: find_best_matches returns exactly the pool candidates whose overall
\* score is >= min_score, sorted by score descending with ties in pool order,
\* truncated to the first limit entries, and the (candidate, job) pairs it
\* persists are exactly those it returns
C20_RankFilterSortTruncatePersist ==
    (m_pc = "returned" /\ m_job # <<>> /\ m_pool # <<>>) =>
        /\ ReturnedPositions \subseteq Qualifying
        /\ Cardinality(ReturnedPositions) = Len(m_returned)
        /\ Len(m_returned) = Min2(m_args.limit, Cardinality(Qualifying))
        /\ \A k \in 1..Len(m_returned) :
               m_returned[k].match_score = PoolScore(ReturnedAt(k))
        /\ \A k \in 1..(Len(m_returned) - 1) :
               RanksBefore(ReturnedAt(k), ReturnedAt(k + 1))
        /\ \A i \in Qualifying \ ReturnedPositions :
               \A j \in ReturnedPositions : RanksBefore(j, i)
        /\ PairsOf(m_saved) =
               {<<m_returned[k].candidate_id, m_args.job_id>> :
                   k \in 1..Len(m_returned)}
        /\ PairsOf(m_saved) \subseteq PairsOf(match_table)

\* of three candidates one is below min_score and two tie; limit 1 keeps
\* the earlier of the two
C20_Witness ==
    /\ m_pc = "returned"
    /\ m_job # <<>>
    /\ Len(m_pool) = 3
    /\ Cardinality(Qualifying) = 2
    /\ Len(m_returned) = 1
    /\ \E i \in Qualifying :
           i > ReturnedAt(1) /\ PoolScore(i) = PoolScore(ReturnedAt(1))
    /\ PairsOf(match_table) = {<<m_returned[1].candidate_id, 7>>}

(* ---------------- properties of find_best_matches ---------------- *)

\* C21: a call for a job id that does not exist ends in an explicit
\* job-not-found error, not in the empty result that an existing job
\* without matching candidates gives
C21_JobNotFoundIsExplicit ==
    (m_job = <<>> /\ m_pc # "call") =>
        ~(m_pc = "returned" /\ m_returned = <<>>)

(* ---------------- save_match_results on its own ---------------- *)

MaxSaved == 3

\* the MatchResults a caller may save: two candidates, each scored for the
\* posted job with one of two profiles
SavedMatches ==
    {_calculate_match_score(PoolCandidate(i, profile), PostedJob) :
        i \in 1..2,
        profile \in {p \in PoolProfiles : p.name \in {"Ann Lee", "Bo Chen"}}}

\* the matches argument of one call
SavedLists == UNION {[1..n -> SavedMatches] : n \in 1..2}

InitSave ==
    /\ PipelineIdle
    /\ FunctionsIdle
    /\ match_table = <<>>
    /\ m_pc = "save"
    /\ m_job = <<>>
    /\ m_pool = <<>>
    /\ m_args = <<>>
    /\ m_returned = <<>>
    /\ m_scored = <<>>
    /\ m_saved = <<>>

\* save_match_results(matches) commits its transaction
SaveCommits ==
    \E matches \in SavedLists :
        /\ Len(m_saved) + Len(matches) <= MaxSaved
        /\ match_table' = save_match_results(match_table, matches)
        /\ m_saved' = m_saved \o matches
        /\ m_pc' = "saved"
        /\ UNCHANGED <<m_job, m_pool, m_args, m_returned, m_scored,
                       functions, pipeline>>

\* save_match_results raises and its transaction is rolled back
SaveRollsBack ==
    /\ m_pc # "raised"
    /\ m_pc' = "raised"
    /\ UNCHANGED <<match_table, m_job, m_pool, m_args, m_returned, m_scored,
                   m_saved, functions, pipeline>>

NextSave == SaveCommits \/ SaveRollsBack

SpecSave == InitSave /\ [][NextSave]_vars

\* the positions in m_saved of the matches saved for the pair of a row
SavedFor(row) == {k \in 1..Len(m_saved) : SamePair(row, m_saved[k])}

\* the most recently saved MatchResult for the pair of a row
LatestFor(row) ==
    m_saved[CHOOSE k \in SavedFor(row) : \A j \in SavedFor(row) : j <= k]

\* the row holds the given MatchResult in every field
RowEquals(row, match) ==
    /\ row.overall_match_score = match.overall_match_score
    /\ row.skill_match_score = match.skill_match_score
    /\ row.experience_match_score = match.experience_match_score
    /\ row.location_match_score = match.location_match_score
    /\ row.education_match_score = match.education_match_score
    /\ row.salary_match_score = match.salary_match_score
    /\ row.matching_skills = match.matching_skills
    /\ row.missing_skills = match.missing_skills
    /\ row.skill_gap_percentage = match.skill_gap_percentage
    /\ row.experience_fit = match.experience_fit
    /\ row.experience_gap_years = match.experience_gap_years
    /\ row.location_compatibility = match.location_compatibility
    /\ row.salary_compatibility = match.salary_compatibility
    /\ row.recommendation = match.recommendation
    /\ row.match_reasons = match.match_reasons
    /\ row.concern_areas = match.concern_areas

\* C22: after any sequence of save_match_results calls there is at most one
\* stored result per (candidate, job) pair, and it equals in every field the
\* most recently saved MatchResult for that pair
C22_UpsertKeepsLatest ==
    /\ \A a, b \in 1..Len(match_table) :
           SamePair(match_table[a], match_table[b]) => a = b
    /\ \A r \in 1..Len(match_table) :
           /\ SavedFor(match_table[r]) # {}
           /\ RowEquals(match_table[r], LatestFor(match_table[r]))


(* ---------------- _calculate_skill_match on its own ---------------- *)

\* the skills a candidate may list, in the order they are listed
HeldSkillOrder == <<"python", "Python", "Django", "Java", "React", "SQL">>

\* candidate_skills
HeldSkills ==
    {SelectSeq(HeldSkillOrder, LAMBDA x : x \in chosen) :
        chosen \in {c \in SUBSET Range(HeldSkillOrder) :
                        Cardinality(c) <= MaxSkills}}

\* required_skills: no skill listed twice
WantedSkills ==
    {q \in UNION {[1..n -> {"Python", "python", "Django", "JavaScript"}] :
                      n \in 0..Min2(MaxRequired - 1, 4)} :
        \A a, b \in DOMAIN q : q[a] = q[b] => a = b}

InitSkill ==
    /\ PipelineIdle
    /\ MatchingIdle
    /\ fn_pc = "call"
    /\ fn_in \in [candidate_skills : HeldSkills, required_skills : WantedSkills,
                  preferred_skills : {<<>>, <<"Django">>}]
    /\ fn_out = <<>>

\* the call returns; awards are the skill_score values of the loop over
\* required_skills, in order
SkillMatch ==
    /\ fn_pc = "call"
    /\ fn_out' = [result |-> _calculate_skill_match(fn_in.candidate_skills,
                                 fn_in.required_skills, fn_in.preferred_skills),
                  awards |-> [k \in 1..Len(fn_in.required_skills) |->
                                 RequiredSkillScore(fn_in.required_skills[k],
                                                    fn_in.candidate_skills)]]
    /\ fn_pc' = "return"
    /\ UNCHANGED <<fn_in, matching, pipeline>>

NextSkill == SkillMatch

SpecSkill == InitSkill /\ [][NextSkill]_vars

\* skill a names a node of the relationship graph whose related set holds
\* skill b, skills being named without regard to case
RelatedTo(a, b) ==
    \E key \in DOMAIN skill_relationships :
        Lower(key) = Lower(a) /\ Lower(b) \in LowerSet(skill_relationships[key])

\* the award the table gives required skill r against the held skills
TableAward(r, held) ==
    IF Lower(r) \in LowerSet(held) THEN One
    ELSE IF \E k \in 1..Len(held) : RelatedTo(r, held[k]) \/ RelatedTo(held[k], r)
    THEN 7 * Tenth
    ELSE IF \E k \in 1..Len(held) :
              Len(Lower(held[k])) > 3 /\ Contains(Lower(r), Lower(held[k]))
    THEN 5 * Tenth
    ELSE 0

\* C23: every required skill is awarded 1.0 / 0.7 / 0.5 / 0 by the table
\* (exact, related in either direction, substring, none), it is missing
\* exactly when its award is 0 and matching otherwise, and the required
\* score is the sum of the awards over the number of required skills
\* (1.0 when there are none)
C23_SkillAwardTable ==
    fn_pc = "return" =>
        LET required == fn_in.required_skills
            held == fn_in.candidate_skills
        IN /\ \A k \in 1..Len(required) :
                  /\ fn_out.awards[k] = TableAward(required[k], held)
                  /\ required[k] \in Range(fn_out.result.missing_skills)
                        <=> fn_out.awards[k] = 0
                  /\ required[k] \in Range(fn_out.result.matching_skills)
                        <=> fn_out.awards[k] # 0
           /\ fn_in.preferred_skills = <<>> =>
                  fn_out.result.score =
                      IF required = <<>> THEN One
                      ELSE SumSeq(fn_out.awards) \div Len(required)


(* ---------------- the experience table ---------------- *)

\* C24: for a job whose bounds form a range, a candidate below min by gap g
\* scores 0.8 (g <= 1), 0.6 (g <= 2), else max(0.2, 1 - 0.2g) and is
\* Under-qualified with gap g; a candidate above max by gap g scores
\* 0.9 (g <= 2), 0.8 (g <= 5), else 0.7 and is Over-qualified with gap g
C24_ExperienceTable ==
    (fn_pc = "return" /\ EffectiveMin <= EffectiveMax) =>
        LET years == fn_in.candidate_years
            below == EffectiveMin - years
            above == years - EffectiveMax
        IN /\ years < EffectiveMin =>
                  /\ fn_out.fit = "Under-qualified"
                  /\ fn_out.gap = below
                  /\ fn_out.score =
                         IF below <= 1 THEN 8 * Tenth
                         ELSE IF below <= 2 THEN 6 * Tenth
                         ELSE IF below = 3 THEN 4 * Tenth
                         ELSE 2 * Tenth
           /\ years > EffectiveMax =>
                  /\ fn_out.fit = "Over-qualified"
                  /\ fn_out.gap = above
                  /\ fn_out.score =
                         IF above <= 2 THEN 9 * Tenth
                         ELSE IF above <= 5 THEN 8 * Tenth
                         ELSE 7 * Tenth

\* 1 year against min 5: gap 4, score 0.2, Under-qualified
C24_Witness ==
    /\ fn_pc = "return"
    /\ fn_in.candidate_years = 1
    /\ fn_in.min_years = 5
    /\ fn_in.max_years = 8
    /\ fn_out = [score |-> 2 * Tenth, fit |-> "Under-qualified", gap |-> 4]


(* ---------------- _calculate_location_match on its own ---------------- *)

\* candidate['location'] and job['location']
Locations ==
    {<<>>, <<"">>, <<"Austin">>, <<"TX">>, <<"Austin", "TX">>,
     <<"austin", "tx">>, <<"Dallas", "TX">>, <<"Austin", "MA">>,
     <<"Boston", "MA">>, <<"Austin Heights", "TX">>}

InitLocation ==
    /\ PipelineIdle
    /\ MatchingIdle
    /\ fn_pc = "call"
    /\ fn_in \in [candidate_location : Locations, job_location : Locations,
                  remote_ok : BOOLEAN]
    /\ fn_out = <<>>

LocationMatch ==
    /\ fn_pc = "call"
    /\ fn_out' = _calculate_location_match(fn_in.candidate_location,
                                           fn_in.job_location, fn_in.remote_ok)
    /\ fn_pc' = "return"
    /\ UNCHANGED <<fn_in, matching, pipeline>>

NextLocation == LocationMatch

SpecLocation == InitLocation /\ [][NextLocation]_vars

\* the score the table gives, its rows read in order
TableLocation(candidate_location, job_location, remote_ok) ==
    IF remote_ok THEN One
    ELSE IF NoLocation(job_location) \/ NoLocation(candidate_location)
    THEN 7 * Tenth
    ELSE LET candidate_parts == LowerParts(candidate_location)
             job_parts == LowerParts(job_location)
         IN IF candidate_parts = job_parts THEN One
            ELSE IF candidate_parts[Len(candidate_parts)]
                        = job_parts[Len(job_parts)] THEN 8 * Tenth
            ELSE IF candidate_parts[1] = job_parts[1] THEN 9 * Tenth
            ELSE IF \E k \in 1..Len(candidate_parts) :
                        InLocation(candidate_parts[k], job_parts)
            THEN 6 * Tenth
            ELSE 3 * Tenth

\* C25: for all inputs the location score is the table's: remote-ok 1.0,
\* a missing location 0.7, exact match 1.0, same trailing token 0.8, same
\* leading token 0.9, partial containment 0.6, otherwise 0.3; and the
\* compatibility flag is false exactly when the score is 0.3
C25_LocationTable ==
    fn_pc = "return" =>
        /\ fn_out.score = TableLocation(fn_in.candidate_location,
                                        fn_in.job_location, fn_in.remote_ok)
        /\ fn_out.compatible <=> fn_out.score # 3 * Tenth


(* ---------------- _calculate_education_match on its own ---------------- *)

\* candidate['education_level']: "" is None; the last three are texts
\* that are not a level of the hierarchy
CandidateEducation ==
    {"", "High School", "Associates", "Bachelors", "Masters", "PhD",
     "Certificate", "Diploma", "Bachelor's degree"}

\* job['education_requirements']: "" is None
JobEducation ==
    {"", "High school diploma", "Associate degree", "Bachelor's degree",
     "Master's degree", "PhD in Computer Science", "Doctorate"}

InitEducation ==
    /\ PipelineIdle
    /\ MatchingIdle
    /\ fn_pc = "call"
    /\ fn_in \in [candidate_education : CandidateEducation,
                  job_education : JobEducation]
    /\ fn_out = <<>>

EducationMatch ==
    /\ fn_pc = "call"
    /\ fn_out' = [score |-> _calculate_education_match(
                                fn_in.candidate_education, fn_in.job_education)]
    /\ fn_pc' = "return"
    /\ UNCHANGED <<fn_in, matching, pipeline>>

NextEducation == EducationMatch

SpecEducation == InitEducation /\ [][NextEducation]_vars

\* the levels that have a rank, High School = 1 ... PhD = 5
RecognisedLevels == {"High School", "Associates", "Bachelors", "Masters", "PhD"}

\* the score the table gives
TableEducation(candidate_education, job_education) ==
    IF job_education = "" THEN One
    ELSE IF candidate_education \notin RecognisedLevels THEN 5 * Tenth
    ELSE LET candidate_rank == education_hierarchy(candidate_education)
             required_rank == job_req_level(job_education)
         IN IF candidate_rank >= required_rank THEN One
            ELSE IF candidate_rank = required_rank - 1 THEN 8 * Tenth
            ELSE 5 * Tenth

\* C26: the education score is 1.0 when the job has no requirement or the
\* candidate's rank is at least the required rank, 0.8 when the candidate
\* is exactly one rank below, and 0.5 otherwise, including whenever the
\* candidate has no recognised education level
C26_EducationTable ==
    fn_pc = "return" =>
        fn_out.score = TableEducation(fn_in.candidate_education,
                                      fn_in.job_education)


(* ---------------- _calculate_salary_match on its own ---------------- *)

\* candidate['salary_expectation'], in thousands; 0 is None
SalaryExpectations == {0, 70, 90, 100, 105, 110, 115, 120, 125, 130}

\* job['salary_min'] and job['salary_max'], in thousands; 0 is None
SalaryMinimums == {0, 80, 120}

SalaryMaximums == {0, 100}

InitSalary ==
    /\ PipelineIdle
    /\ MatchingIdle
    /\ fn_pc = "call"
    /\ fn_in \in [candidate_expectation : SalaryExpectations,
                  job_min : SalaryMinimums, job_max : SalaryMaximums]
    /\ fn_out = <<>>

SalaryMatch ==
    /\ fn_pc = "call"
    /\ fn_out' = _calculate_salary_match(fn_in.candidate_expectation,
                                         fn_in.job_min, fn_in.job_max)
    /\ fn_pc' = "return"
    /\ UNCHANGED <<fn_in, matching, pipeline>>

NextSalary == SalaryMatch

SpecSalary == InitSalary /\ [][NextSalary]_vars

\* the result the table gives for a job that states a salary maximum
TableSalary(candidate_expectation, job_min, job_max) ==
    IF candidate_expectation <= job_max \/ candidate_expectation < job_min
    THEN [score |-> One, compatible |-> TRUE]
    ELSE IF 10 * (candidate_expectation - job_max) <= job_max
    THEN [score |-> 8 * Tenth, compatible |-> TRUE]
    ELSE IF 10 * (candidate_expectation - job_max) <= 2 * job_max
    THEN [score |-> 6 * Tenth, compatible |-> FALSE]
    ELSE [score |-> 3 * Tenth, compatible |-> FALSE]

\* C27: no candidate expectation or no job range gives 1.0, compatible; for
\* every expectation and every job that states a salary maximum, inside the
\* range or below the minimum gives 1.0 (compatible), above the maximum by
\* at most 10% 0.8 (compatible), by at most 20% 0.6 (incompatible), by more
\* 0.3 (incompatible)
C27_SalaryTable ==
    fn_pc = "return" =>
        /\ (fn_in.candidate_expectation = 0
                \/ (fn_in.job_min = 0 /\ fn_in.job_max = 0)) =>
               fn_out = [score |-> One, compatible |-> TRUE]
        /\ (fn_in.candidate_expectation # 0 /\ fn_in.job_max # 0) =>
               fn_out = TableSalary(fn_in.candidate_expectation,
                                    fn_in.job_min, fn_in.job_max)


(* ---------------- what find_best_matches persists ---------------- *)

\* the MatchResult the call computed for the pair of the k-th saved object
ComputedFor(k) == m_scored[PoolPosition(m_saved[k].candidate_id)].match_result

\* C28: every MatchResult find_best_matches persists carries the overall
\* score and the five sub-scores that _calculate_match_score computed for
\* its (candidate, job) pair in the same call
C28_PersistedScoresAsComputed ==
    m_pc = "returned" =>
        \A k \in 1..Len(m_saved) :
            /\ m_saved[k].overall_match_score
                   = ComputedFor(k).overall_match_score
            /\ m_saved[k].skill_match_score = ComputedFor(k).skill_match_score
            /\ m_saved[k].experience_match_score
                   = ComputedFor(k).experience_match_score
            /\ m_saved[k].location_match_score
                   = ComputedFor(k).location_match_score
            /\ m_saved[k].education_match_score
                   = ComputedFor(k).education_match_score
            /\ m_saved[k].salary_match_score
                   = ComputedFor(k).salary_match_score


(* ---------------- properties of the storage stage ---------------- *)

\* the rows of the candidates table written for the profile at position k
\* of valid_candidates
RowsOf(k) == {r \in 1..Len(candidates_table) : candidates_table[r].pos = k}

\* C29: in one ingest call every profile handed to persistence has at most
\* one stored candidate row, whatever batches and single inserts fail, and
\* create_candidate is called for a profile only if the bulk insert of its
\* batch failed
C29_PersistedAtMostOnce ==
    /\ \A k \in 1..Len(valid_candidates) : Cardinality(RowsOf(k)) <= 1
    /\ \A r \in 1..Len(candidates_table) :
           candidates_table[r].pos \in 1..Len(valid_candidates)
    /\ \A c \in 1..Len(create_calls) :
           BatchStart(create_calls[c]) \in bulk_failed

\* the first batch failed as a whole and its profiles were inserted one by
\* one; the next batch went in by its bulk insert
C29_Witness ==
    /\ Stored
    /\ bulk_failed = {0}
    /\ Len(valid_candidates) > batch_size
    /\ Len(create_calls) = batch_size
    /\ \A k \in 1..Len(valid_candidates) : Cardinality(RowsOf(k)) = 1


\* the 0-based start positions of the batches of valid_candidates
BatchStarts ==
    {i \in 0..Len(valid_candidates) :
        i % batch_size = 0 /\ i < Len(valid_candidates)}

\* C30: after validation, in every batch handed to persistence any two
\* distinct profiles have different emails, a missing email included, so
\* no batch brings two rows with the same email to the store
C30_BatchEmailsDistinct ==
    Validated =>
        \A i \in BatchStarts : DistinctEmails(Batch(valid_candidates, i))

====
